---- MODULE Spec2Model ----
(***************************************************************************)
(* A model of the claude-mcp-kb server: the sync orchestrator              *)
(* (src/index.ts), the GitHub fetcher and its glob matcher                 *)
(* (src/knowledge-base/github-sync.ts), the in-memory search engine        *)
(* (knowledge-base/search.ts) and the blocklist storage                    *)
(* (knowledge-base/storage.ts, listed in SETUP.md).                        *)
(*                                                                         *)
(* A string is a sequence of symbols.  File paths and patterns are         *)
(* sequences of one-character strings; owner, repository and branch names  *)
(* are written as one symbol per "/"-free run, since the program only ever *)
(* joins them with "/" and never looks inside them.                        *)
(***************************************************************************)
EXTENDS Integers, Sequences, FiniteSets, TLC

VARIABLES
    documents,      \* SearchEngine.documents: the Map, as the sequence of its values in insertion order
    githubSync,     \* index.ts githubSync: TRUE once a GitHubSync has been constructed
    syncInterval,   \* index.ts syncInterval: 0 for null, else the interval (minutes) of the armed timer
    mainPc,         \* where main() stands
    configFile,     \* the content of ~/.claude-kb/config.json
    pass,           \* the invocations of syncKnowledgeBase, one record per slot
    started,        \* how many times syncKnowledgeBase has been called so far
    faults,         \* how many provider / file-system failures have happened so far
    now,            \* the wall clock read by new Date()
    blocklistFile,  \* the content of ~/.claude-kb/data/blocklist.json
    call,           \* the invocations of KnowledgeBaseStorage.addBlocklistEntry, one record per slot
    probe           \* inputs and result of the last direct use of a pure operation

vars == <<documents, githubSync, syncInterval, mainPc, configFile, pass, started, faults, now,
          blocklistFile, call, probe>>

syncVars == <<documents, githubSync, syncInterval, mainPc, configFile, pass, started, faults>>

-----------------------------------------------------------------------------
(* Bounds of the model.                                                    *)

\* concurrent invocations of syncKnowledgeBase that the model follows
MaxPasses == 2
\* calls of syncKnowledgeBase in one behaviour
MaxSyncs == 3
\* provider / file-system failures in one behaviour
MaxFaults == 1
\* concurrent invocations of addBlocklistEntry that the model follows
MaxCalls == 2
\* entries in the ledger, written or about to be
MaxEntries == 3
\* the last instant of the wall clock
MaxClock == 1
\* documents in one batch handed to addDocuments directly
MaxBatch == 2
\* entries in a ledger given to isBlocked
MaxLedger == 3
\* the largest whole maxResults of a search request
MaxMaxResults == 3

-----------------------------------------------------------------------------
(* Strings.                                                                *)

Slash == <<"/">>

\* a.b.c joined with "/", as a template literal `${a}/${b}/${c}` does
Join2(a, b) == a \o Slash \o b

RECURSIVE ReplaceAll(_, _, _)
\* String.prototype.replace(/from/g, to): every non-overlapping occurrence
\* of `from`, scanning left to right; the replacement is not rescanned
ReplaceAll(s, from, to) ==
    IF Len(s) < Len(from) THEN s
    ELSE IF SubSeq(s, 1, Len(from)) = from
         THEN to \o ReplaceAll(SubSeq(s, Len(from) + 1, Len(s)), from, to)
         ELSE <<s[1]>> \o ReplaceAll(Tail(s), from, to)

\* the position of the last occurrence of symbol c in s, 0 when there is none
LastIndexOf(s, c) ==
    LET hits == {i \in 1..Len(s) : s[i] = c}
    IN  IF hits = {} THEN 0 ELSE CHOOSE i \in hits : \A j \in hits : j <= i

\* path.extname: from the last "." of the last path segment; empty when the
\* segment has no "." or only a leading one
ExtName(p) ==
    LET base == SubSeq(p, LastIndexOf(p, "/") + 1, Len(p))
        dot  == LastIndexOf(base, ".")
    IN  IF dot <= 1 THEN <<>> ELSE SubSeq(base, dot, Len(base))

-----------------------------------------------------------------------------
(* GitHubSync.matchPattern: glob to regular expression, then RegExp.test.  *)

\* the regular expression source built from a glob pattern
\* a variant of the translation in which "*" becomes ".*"
RegexSource_starAnyRun(pattern) ==
    LET s1 == ReplaceAll(pattern, <<".">>, <<"\\", ".">>)
        s2 == ReplaceAll(s1, <<"*", "*">>, <<".", "*">>)
        s3 == ReplaceAll(s2, <<"*">>, <<".", "*">>)
        s4 == ReplaceAll(s3, <<"?">>, <<".">>)
    IN  s4

RegexSource(pattern) ==
    LET s1 == ReplaceAll(pattern, <<".">>, <<"\\", ".">>)
        s2 == ReplaceAll(s1, <<"*", "*">>, <<".", "*">>)
        s3 == ReplaceAll(s2, <<"*">>, <<"[", "^", "/", "]", "*">>)
        s4 == ReplaceAll(s3, <<"?">>, <<".">>)
    IN  s4

\* new RegExp throws a SyntaxError on an unterminated group or an unmatched ")"
RegexSyntaxError(src) ==
    Cardinality({i \in 1..Len(src) : src[i] = "("}) # Cardinality({i \in 1..Len(src) : src[i] = ")"})

RECURSIVE RegexTokens(_)
\* the atoms of a regular expression source over the characters the glob
\* translation produces: \c is the literal c, [^/]* a run without "/", "." any
\* character, every other character itself
RegexTokens(src) ==
    IF src = <<>> THEN <<>>
    ELSE IF src[1] = "\\" /\ Len(src) >= 2
         THEN <<[kind |-> "lit", ch |-> src[2]]>> \o RegexTokens(SubSeq(src, 3, Len(src)))
    ELSE IF Len(src) >= 5 /\ SubSeq(src, 1, 5) = <<"[", "^", "/", "]", "*">>
         THEN <<[kind |-> "notSlashStar", ch |-> ""]>> \o RegexTokens(SubSeq(src, 6, Len(src)))
    ELSE IF src[1] = "."
         THEN <<[kind |-> "any", ch |-> ""]>> \o RegexTokens(Tail(src))
    ELSE <<[kind |-> "lit", ch |-> src[1]]>> \o RegexTokens(Tail(src))

RECURSIVE RegexMatch(_, _, _, _)
\* whether tokens i.. match s from position j to its end (the $ anchor)
RegexMatch(toks, i, s, j) ==
    IF i > Len(toks) THEN j > Len(s)
    ELSE IF toks[i].kind = "notSlashStar"
         THEN \E k \in j..(Len(s) + 1) :
                 /\ \A m \in j..(k - 1) : s[m] # "/"
                 /\ RegexMatch(toks, i + 1, s, k)
    ELSE /\ j <= Len(s)
         /\ toks[i].kind = "lit" => s[j] = toks[i].ch
         /\ RegexMatch(toks, i + 1, s, j + 1)

\* new RegExp(`^${src}$`).test(s): "throw" when the RegExp cannot be built,
\* else whether the whole of s matches
RegExpTest(src, s) ==
    IF RegexSyntaxError(src) THEN "throw"
    ELSE IF RegexMatch(RegexTokens(src), 1, s, 1) THEN "true" ELSE "false"

\* the body of matchPattern, computed step by step
MatchPatternOf(filePath, pattern) == RegExpTest(RegexSource(pattern), filePath)

-----------------------------------------------------------------------------
(* The content provider (GitHub), as the program sees it: what a call may  *)
(* answer.                                                                 *)

Dot == "."

p_docs_a_md == <<"d", "/", "a", Dot, "m", "d">>
p_claude_k_a_md == <<Dot, "c", "l", "a", "u", "d", "e", "/", "k", "/", "a", Dot, "m", "d">>
p_readme_md == <<"r", Dot, "m", "d">>
p_a_b_md == <<"a", "/", "b", Dot, "m", "d">>
p_notes_txt == <<"n", Dot, "t", "x", "t">>
p_b_md == <<"b", Dot, "m", "d">>
p_a_b_c_md == <<"a", "/", "b", "/", "c", Dot, "m", "d">>
p_a_b_c_d_md == <<"a", "/", "b", "/", "c", "/", "d", Dot, "m", "d">>
p_x_node_modules_y_z_ts ==
    <<"x", "/", "n", "o", "d", "e", "_", "m", "o", "d", "u", "l", "e", "s", "/", "y", "/", "z",
      Dot, "t", "s">>

\* the built-in patterns of syncKnowledgeBase and the defaults of fetchFilesFromRepo
pat_claude_md == <<Dot, "c", "l", "a", "u", "d", "e", "/", "*", "*", "/", "*", Dot, "m", "d">>
pat_mcp_json == <<"*", "*", "/", "*", Dot, "m", "c", "p", Dot, "j", "s", "o", "n">>
pat_any_md == <<"*", "*", "/", "*", Dot, "m", "d">>
pat_package_json == <<"*", "*", "/", "p", "a", "c", "k", "a", "g", "e", Dot, "j", "s", "o", "n">>
pat_node_modules == <<"*", "*", "/", "n", "o", "d", "e", "_", "m", "o", "d", "u", "l", "e", "s", "/", "*", "*">>
pat_star_md == <<"*", Dot, "m", "d">>
pat_unterminated == <<"(", "*", Dot, "m", "d">>
pat_a_any_md == <<"a", "/", "*", "*", "/", "*", Dot, "m", "d">>
pat_a_star_md == <<"a", "/", "*", Dot, "m", "d">>
pat_star_txt == <<"*", Dot, "t", "x", "t">>

KnownPaths == {p_docs_a_md, p_claude_k_a_md, p_readme_md, p_a_b_md, p_notes_txt, p_a_b_c_md,
               p_a_b_c_d_md, p_x_node_modules_y_z_ts, p_b_md}
KnownPatterns == {pat_claude_md, pat_mcp_json, pat_any_md, pat_package_json, pat_node_modules,
                  pat_star_md, pat_unterminated, pat_a_any_md, pat_a_star_md, pat_star_txt}

\* the results of matchPattern on the paths and patterns above, computed once
MatchTable == {<<pp, MatchPatternOf(pp[1], pp[2])>> : pp \in KnownPaths \X KnownPatterns}

\* the entry of a table of <<key, value>> pairs under a key
Lookup(table, key) == (CHOOSE t \in table : t[1] = key)[2]

\* GitHubSync.matchPattern(filePath, pattern)
matchPattern(filePath, pattern) == Lookup(MatchTable, <<filePath, pattern>>)

\* Array.prototype.some over the results its callback gives, in order: it
\* stops at the first "true", and a callback that throws before that leaves
\* the loop with the exception
FirstDecisive(results) ==
    IF \A i \in 1..Len(results) : results[i] = "false" THEN "false"
    ELSE results[CHOOSE i \in 1..Len(results) :
                    /\ results[i] # "false"
                    /\ \A j \in 1..(i - 1) : results[j] = "false"]

\* patterns.some(p => matchPattern(path, p))
some(patterns, filePath) ==
    FirstDecisive([i \in 1..Len(patterns) |-> matchPattern(filePath, patterns[i])])

Blob(path, sha, size) == [path |-> path, type |-> "blob", sha |-> sha, size |-> size]
Dir(path, sha) == [path |-> path, type |-> "tree", sha |-> sha, size |-> 0]

Repo(owner, name) == [owner |-> <<owner>>, repo |-> <<name>>]

userRepo1 == Repo("u", "r1")
userRepo2 == Repo("u", "r2")
userRepo3 == Repo("u", "r3")

\* git.getBlob: the content stored under a content address
BlobContent(sha) ==
    CASE sha = "s1" -> <<"f", "o", "o">>
      [] sha = "s2" -> <<"F", "o", "o", " ", "f", "o", "o">>
      [] OTHER -> <<"b", "a", "r">>

\* git.getTree(recursive): the listings a repository may answer with
Trees(owner, repo) ==
    IF [owner |-> owner, repo |-> repo] = userRepo1
    THEN {<<Dir(<<Dot, "c", "l", "a", "u", "d", "e">>, "t1"), Blob(p_claude_k_a_md, "s1", 3)>>}
    ELSE IF [owner |-> owner, repo |-> repo] = userRepo3
    THEN {<<Blob(p_readme_md, "s1", 3), Blob(p_a_b_md, "s3", 3), Blob(p_notes_txt, "s3", 3)>>}
    ELSE IF repo = <<"servers">>
    THEN {<<Blob(p_docs_a_md, "s3", 3)>>}
    ELSE {<<Blob(p_readme_md, "s3", 3)>>}

\* repos.listForUser: the repositories the authenticated user owns
ListForUser == <<userRepo1, userRepo2>>

\* repos.getContent(path: '.claude') succeeds for these
HasClaudeDir == {userRepo1}

RECURSIVE SeqToSet(_)
SeqToSet(s) == IF s = <<>> THEN {} ELSE {Head(s)} \cup SeqToSet(Tail(s))

RECURSIVE SelectSeq2(_, _)
\* Array.prototype.filter with a predicate given as a set of kept indices
SelectSeq2(s, keep) ==
    IF s = <<>> THEN <<>>
    ELSE LET n == Len(s)
             front == SelectSeq2(SubSeq(s, 1, n - 1), keep)
         IN  IF n \in keep THEN Append(front, s[n]) ELSE front

-----------------------------------------------------------------------------
(* GitHubSync.fetchFilesFromRepo.                                          *)

\* what the calls made for one repository answer: ensureRepoDir (mkdir),
\* git.getTree, git.getBlob per content address, and the cache write per path
FetchOutcomes(owner, repo) ==
    {[mkdirOk |-> TRUE, treeOk |-> FALSE, tree |-> <<>>, failBlobs |-> {}, failWrites |-> {}],
     [mkdirOk |-> FALSE, treeOk |-> FALSE, tree |-> <<>>, failBlobs |-> {}, failWrites |-> {}]}
    \cup
    UNION {
      LET blobs == {i \in 1..Len(t) : t[i].type = "blob"}
      IN  {[mkdirOk |-> TRUE, treeOk |-> TRUE, tree |-> t, failBlobs |-> fb, failWrites |-> fw] :
             fb \in SUBSET {t[i].sha : i \in blobs},
             fw \in SUBSET {t[i].path : i \in blobs}}
      : t \in Trees(owner, repo)}

\* the number of failed calls in an outcome
FaultsIn(out) ==
    (IF out.mkdirOk THEN 0 ELSE 1)
    + (IF out.mkdirOk /\ ~out.treeOk THEN 1 ELSE 0)
    + Cardinality(out.failBlobs) + Cardinality(out.failWrites)

\* the filter callback of fetchFilesFromRepo from the results of its two
\* pattern tests: "true", "false" or "throw".  The exclude patterns are
\* tested only when an include pattern matched
FilterVerdict(item, includeMatch, excludeMatch) ==
    IF item.type # "blob" THEN "false"
    ELSE IF item.path = <<>> THEN "false"
    ELSE IF includeMatch # "true" THEN includeMatch
    ELSE IF excludeMatch = "true" THEN "false"
    ELSE IF excludeMatch = "throw" THEN "throw"
    ELSE "true"

\* the filter callback of fetchFilesFromRepo on one tree item
IsMatchingFile(item, includePatterns, excludePatterns) ==
    FilterVerdict(item, some(includePatterns, item.path), some(excludePatterns, item.path))

\* the IndexedDocument built for one fetched file
Document(owner, repo, branch, file, time) ==
    [id |-> Join2(Join2(Join2(owner, repo), branch), file.path),
     repoOwner |-> owner,
     repoName |-> repo,
     branch |-> branch,
     filePath |-> file.path,
     content |-> BlobContent(file.sha),
     metadata |-> [fileType |-> IF Len(ExtName(file.path)) <= 1 THEN <<"unknown">>
                                ELSE Tail(ExtName(file.path)),
                   lastModified |-> time,
                   size |-> file.size,
                   hash |-> file.sha],
     indexed |-> time]

\* a variant of the fetch loop that leaves the loop at the first file whose
\* fetch fails
FetchedFiles_stopAtFailure(matchingFiles, out) ==
    LET bad == {i \in 1..Len(matchingFiles) :
                   matchingFiles[i].sha # "" /\ matchingFiles[i].sha \in out.failBlobs}
    IN  SelectSeq2(matchingFiles,
           {i \in 1..Len(matchingFiles) :
               /\ matchingFiles[i].sha # ""
               /\ \A j \in bad : i < j})

\* the loop over matchingFiles: the files whose document is pushed.  A file
\* without a content address is passed over, a file whose getBlob fails is
\* logged and passed over; the document is pushed before the cache is
\* written, so a failed write does not take it back
FetchedFiles(matchingFiles, out) ==
    SelectSeq2(matchingFiles,
       {i \in 1..Len(matchingFiles) :
           /\ matchingFiles[i].sha # ""
           /\ matchingFiles[i].sha \notin out.failBlobs})

\* the documents built for the files fetched, in order
DocumentsOf(owner, repo, branch, fetched, time) ==
    [i \in 1..Len(fetched) |-> Document(owner, repo, branch, fetched[i], time)]

\* the outer try block after git.getTree has answered, from the verdicts of
\* the filter callback on the items of the tree: an exception of the
\* callback leaves the block, else the matching files are fetched
FilterAndFetch(owner, repo, branch, verdict, out, time) ==
    IF \E i \in 1..Len(out.tree) : verdict[i] = "throw"
    THEN [raised |-> TRUE, documents |-> <<>>]
    ELSE [raised |-> FALSE,
          documents |-> DocumentsOf(owner, repo, branch,
                           FetchedFiles(SelectSeq2(out.tree,
                                           {i \in 1..Len(out.tree) : verdict[i] = "true"}),
                                        out),
                           time)]

\* the body of the outer try block: whether it raised, and the documents
\* it reached `return documents` with
TryFetch(owner, repo, branch, includePatterns, excludePatterns, out, time) ==
    IF ~out.mkdirOk THEN [raised |-> TRUE, documents |-> <<>>]
    ELSE IF ~out.treeOk THEN [raised |-> TRUE, documents |-> <<>>]
    ELSE FilterAndFetch(owner, repo, branch,
            [i \in 1..Len(out.tree) |->
                IsMatchingFile(out.tree[i], includePatterns, excludePatterns)],
            out, time)

\* the outer catch block: the exception is logged and [] returned
CatchAll(r) ==
    IF r.raised THEN [threw |-> FALSE, logged |-> TRUE, documents |-> <<>>]
    ELSE [threw |-> FALSE, logged |-> FALSE, documents |-> r.documents]

\* path.join(getRepoPath(owner, repo), file.path): the cache file of a
\* fetched file
LocalPath(owner, repo, filePath) == Join2(Join2(owner, repo), filePath)

\* fs.writeFile(localPath, content) on the cache, a set of files each with
\* its path and content: the file is created or replaced
WriteFile(cache, localPath, content) ==
    {f \in cache : f.path # localPath} \cup {[path |-> localPath, content |-> content]}

RECURSIVE CacheAfter(_, _, _, _, _)
\* the cache after the loop of fetchFilesFromRepo over the files fetched:
\* each is written to its cache file unless the write fails, and a failed
\* write is logged and passed over
CacheAfter(cache, owner, repo, fetched, out) ==
    IF fetched = <<>> THEN cache
    ELSE CacheAfter(IF Head(fetched).path \in out.failWrites THEN cache
                    ELSE WriteFile(cache, LocalPath(owner, repo, Head(fetched).path),
                                   BlobContent(Head(fetched).sha)),
                    owner, repo, Tail(fetched), out)

\* the cache after fetchFilesFromRepo under the answers `out`
CacheAfterFetch(cache, owner, repo, includePatterns, excludePatterns, out) ==
    IF ~out.mkdirOk \/ ~out.treeOk THEN cache
    ELSE LET verdict == [i \in 1..Len(out.tree) |->
                           IsMatchingFile(out.tree[i], includePatterns, excludePatterns)]
         IN  IF \E i \in 1..Len(out.tree) : verdict[i] = "throw" THEN cache
             ELSE CacheAfter(cache, owner, repo,
                     FetchedFiles(SelectSeq2(out.tree,
                                     {i \in 1..Len(out.tree) : verdict[i] = "true"}), out),
                     out)

\* no catch block: the exception leaves the function
Rethrow(r) == [threw |-> r.raised, logged |-> FALSE, documents |-> r.documents]

\* a variant of fetchFilesFromRepo without its outer try/catch
fetchFilesFromRepo_noCatch(owner, repo, branch, includePatterns, excludePatterns, out, time) ==
    Rethrow(TryFetch(owner, repo, branch, includePatterns, excludePatterns, out, time))

\* fetchFilesFromRepo(owner, repo, branch, includePatterns, excludePatterns)
\* under the answers `out`, at wall-clock time `time`: whether it threw,
\* whether it logged "Error fetching repo", and the documents it returned
fetchFilesFromRepo(owner, repo, branch, includePatterns, excludePatterns, out, time) ==
    CatchAll(TryFetch(owner, repo, branch, includePatterns, excludePatterns, out, time))

-----------------------------------------------------------------------------
(* SearchEngine.                                                           *)

\* Map.prototype.set: an existing key keeps its place, a new key goes last
MapSet(docs, doc) ==
    IF \E i \in 1..Len(docs) : docs[i].id = doc.id
    THEN [i \in 1..Len(docs) |-> IF docs[i].id = doc.id THEN doc ELSE docs[i]]
    ELSE Append(docs, doc)

RECURSIVE addDocuments_keepFirst(_, _)
\* a variant of addDocuments that does not overwrite a stored id
addDocuments_keepFirst(docs, batch) ==
    IF batch = <<>> THEN docs
    ELSE addDocuments_keepFirst(
            IF \E i \in 1..Len(docs) : docs[i].id = Head(batch).id THEN docs
            ELSE Append(docs, Head(batch)),
            Tail(batch))

RECURSIVE addDocuments(_, _)
\* SearchEngine.addDocuments(batch) on the map `docs`
addDocuments(docs, batch) ==
    IF batch = <<>> THEN docs
    ELSE addDocuments(MapSet(docs, Head(batch)), Tail(batch))

\* SearchEngine.clear()
clear(docs) == <<>>

\* String.prototype.toLowerCase on one character
LowerChar(c) ==
    CASE c = "A" -> "a"
      [] c = "F" -> "f"
      [] c = "O" -> "o"
      [] OTHER -> c

\* String.prototype.toLowerCase
ToLowerCase(text) == [i \in 1..Len(text) |-> LowerChar(text[i])]

\* whether `text` has `part` at position i
OccursAt(text, part, i) ==
    i + Len(part) - 1 <= Len(text) /\ SubSeq(text, i, i + Len(part) - 1) = part

\* String.prototype.includes
Includes(text, part) == \E i \in 1..(Len(text) + 1) : OccursAt(text, part, i)

\* the positions from i on where `text` has `part`
OccurrencesFrom(text, part, i) == {j \in i..(Len(text) + 1) : OccursAt(text, part, j)}

RECURSIVE SplitPieces(_, _, _)
\* the number of pieces text.split(separator) still cuts from position i
\* on, for a separator that is not empty: it cuts at the next occurrence
\* and goes on after it
SplitPieces(text, separator, i) ==
    IF OccurrencesFrom(text, separator, i) = {} THEN 1
    ELSE 1 + SplitPieces(text, separator,
                         Len(separator) +
                         (CHOOSE j \in OccurrencesFrom(text, separator, i) :
                             \A k \in OccurrencesFrom(text, separator, i) : j <= k))

\* text.split(separator).length: an empty separator cuts the text into its
\* characters, and the empty text into no piece at all
SplitLength(text, separator) ==
    IF separator = <<>> THEN Len(text) ELSE SplitPieces(text, separator, 1)

\* Numbers of a search (scores, maxResults) are kept in tenths.
\* Math.min(matches / 10, 1.0)
Score(matches) == IF matches < 10 THEN matches ELSE 10

\* String.prototype.indexOf, counted from 0, on a text that includes the part
IndexOf(text, part) ==
    (CHOOSE i \in 1..(Len(text) + 1) :
        /\ OccursAt(text, part, i)
        /\ \A j \in 1..(i - 1) : ~OccursAt(text, part, j)) - 1

\* the characters search takes before and after the offset of the first
\* match
SnippetBefore == 100
SnippetAfter == 200

\* content.slice(start, end) for 0 <= start, end <= content.length
StringSlice(content, start, end) == SubSeq(content, start + 1, end)

\* `...${doc.content.slice(snippetStart, snippetEnd)}...`
SnippetOf(content, queryLower, firstMatchIndex) ==
    <<".", ".", ".">> \o
    StringSlice(content,
                IF firstMatchIndex - SnippetBefore > 0 THEN firstMatchIndex - SnippetBefore ELSE 0,
                IF Len(content) < firstMatchIndex + SnippetAfter
                THEN Len(content) ELSE firstMatchIndex + SnippetAfter) \o
    <<".", ".", ".">>

\* the result search builds for a document that includes the query
SearchResult(doc, queryLower) ==
    [document |-> doc,
     score |-> Score(SplitLength(ToLowerCase(doc.content), queryLower) - 1),
     snippet |-> SnippetOf(doc.content, queryLower,
                           IndexOf(ToLowerCase(doc.content), queryLower))]

\* the loop of search over this.documents.values(): a result for each
\* document whose content includes the query, in the order of the map
Matches(docs, queryLower) ==
    [k \in 1..Cardinality({i \in 1..Len(docs) :
                              Includes(ToLowerCase(docs[i].content), queryLower)}) |->
        SearchResult(
           docs[CHOOSE i \in 1..Len(docs) :
                   /\ Includes(ToLowerCase(docs[i].content), queryLower)
                   /\ Cardinality({j \in 1..i :
                         Includes(ToLowerCase(docs[j].content), queryLower)}) = k],
           queryLower)]

\* the position an element takes under results.sort((a, b) => b.score -
\* a.score): the sort is stable (Node.js 18 and later), so an element comes
\* after those of greater score and those of equal score that precede it
Place(results, i) ==
    1 + Cardinality({j \in 1..Len(results) :
                        \/ results[j].score > results[i].score
                        \/ results[j].score = results[i].score /\ j < i})

\* a variant of the sort that reverses elements of equal score
Sorted_tiesReversed(results) ==
    [k \in 1..Len(results) |->
        results[CHOOSE i \in 1..Len(results) :
                   k = 1 + Cardinality({j \in 1..Len(results) :
                                           \/ results[j].score > results[i].score
                                           \/ results[j].score = results[i].score /\ j > i})]]

\* results.sort((a, b) => b.score - a.score)
Sorted(results) ==
    [k \in 1..Len(results) |->
        results[CHOOSE i \in 1..Len(results) : Place(results, i) = k]]

\* results.slice(0, end) for end >= 0 in tenths: the end is truncated to
\* an integer and clamped to the length
Slice(results, end) ==
    SubSeq(results, 1, IF end \div 10 < Len(results) THEN end \div 10 ELSE Len(results))

\* SearchEngine.search(query, maxResults) on the map `docs`
search(docs, query, maxResults) ==
    Slice(Sorted(Matches(docs, ToLowerCase(query))), maxResults)

\* the keys of the map
Ids(docs) == {docs[i].id : i \in 1..Len(docs)}

\* SearchEngine.getDocument(id): the stored document, <<>> for undefined
getDocument(docs, id) ==
    IF id \in Ids(docs) THEN docs[CHOOSE i \in 1..Len(docs) : docs[i].id = id] ELSE <<>>

\* map.set(key, (map.get(key) || 0) + 1) on a Map kept as the sequence of
\* its entries in insertion order
CountOneMore(counts, key) ==
    IF \E i \in 1..Len(counts) : counts[i].key = key
    THEN [i \in 1..Len(counts) |->
            IF counts[i].key = key THEN [key |-> key, count |-> counts[i].count + 1]
            ELSE counts[i]]
    ELSE Append(counts, [key |-> key, count |-> 1])

RECURSIVE CountKeys(_, _)
\* the Map a loop over the documents fills, given the keys of the first n
\* documents in order
CountKeys(keys, n) ==
    IF n = 0 THEN <<>> ELSE CountOneMore(CountKeys(keys, n - 1), keys[n])

\* the Map filled by counting the documents by KeyOf(doc)
CountBy(docs, KeyOf(_)) == CountKeys([i \in 1..Len(docs) |-> KeyOf(docs[i])], Len(docs))

RepositoryKey(doc) == Join2(doc.repoOwner, doc.repoName)
FileTypeKey(doc) == doc.metadata.fileType

\* SearchEngine.getStats()
getStats(docs) ==
    [totalDocuments |-> Len(docs),
     repositories |-> {RepositoryKey(docs[i]) : i \in 1..Len(docs)},
     fileTypes |-> CountBy(docs, FileTypeKey)]

\* the piece of text.split('/') at index k (from 0), <<>> for undefined
SlashPiece(text, k) ==
    LET cuts == {i \in 1..Len(text) : text[i] = "/"}
        before(i) == Cardinality({j \in cuts : j < i})
        piece == {i \in 1..Len(text) : i \notin cuts /\ before(i) = k}
    IN  IF Cardinality(cuts) < k THEN <<>>
        ELSE [i \in 1..Cardinality(piece) |->
                 text[CHOOSE j \in piece : Cardinality({h \in piece : h < j}) = i - 1]]

\* a variant of listRepositories that counts by owner alone
listRepositories_byOwner(docs) ==
    LET repoMap == CountBy(docs, LAMBDA doc : doc.repoOwner \o Slash)
    IN  [i \in 1..Len(repoMap) |->
            [owner |-> SlashPiece(repoMap[i].key, 0), repo |-> SlashPiece(repoMap[i].key, 1),
             fileCount |-> repoMap[i].count]]

\* SearchEngine.listRepositories(): the entries of the count by
\* `owner/name`, each key split at '/' into owner and repo
listRepositories(docs) ==
    LET repoMap == CountBy(docs, RepositoryKey)
    IN  [i \in 1..Len(repoMap) |->
            [owner |-> SlashPiece(repoMap[i].key, 0), repo |-> SlashPiece(repoMap[i].key, 1),
             fileCount |-> repoMap[i].count]]

-----------------------------------------------------------------------------
(* Configuration: KnowledgeBaseConfigSchema and KnowledgeBaseStorage.      *)

Main == <<"main">>

Descriptor(r, branch, includePatterns, excludePatterns, indexingEnabled) ==
    [owner |-> r.owner, repo |-> r.repo, branch |-> branch,
     includePatterns |-> includePatterns, excludePatterns |-> excludePatterns,
     indexingEnabled |-> indexingEnabled]

\* the configuration ensureDefaultFiles writes when there is none
DefaultConfig ==
    [repositories |-> <<>>,
     sync |-> [enabled |-> TRUE, intervalMinutes |-> 30, autoDiscoverUserRepos |-> TRUE,
               includeOfficialMCPRepos |-> TRUE, includeCommunityRepos |-> TRUE]]

\* a user's configuration: two repositories indexed, one switched off
ConfigWithRepo ==
    [repositories |-> <<Descriptor(userRepo1, Main, <<pat_claude_md>>, <<>>, TRUE),
                        Descriptor(userRepo3, Main, <<pat_star_md>>, <<>>, TRUE),
                        Descriptor(userRepo2, Main, <<pat_any_md>>, <<>>, FALSE)>>,
     sync |-> [enabled |-> TRUE, intervalMinutes |-> 5, autoDiscoverUserRepos |-> FALSE,
               includeOfficialMCPRepos |-> FALSE, includeCommunityRepos |-> FALSE]]

\* the same with the second repository removed
ConfigRepoRemoved ==
    [repositories |-> <<Descriptor(userRepo1, Main, <<pat_claude_md>>, <<>>, TRUE),
                        Descriptor(userRepo2, Main, <<pat_any_md>>, <<>>, FALSE)>>,
     sync |-> [enabled |-> TRUE, intervalMinutes |-> 5, autoDiscoverUserRepos |-> FALSE,
               includeOfficialMCPRepos |-> FALSE, includeCommunityRepos |-> FALSE]]

\* what config.json may hold: a configuration, or text that is not one
FileOf(config) == [exists |-> TRUE, json |-> TRUE, value |-> config]
MissingFile == [exists |-> FALSE, json |-> FALSE]
UnparseableFile == [exists |-> TRUE, json |-> FALSE]
ConfigFiles == {FileOf(DefaultConfig), FileOf(ConfigWithRepo), FileOf(ConfigRepoRemoved), UnparseableFile}

MinIntervalMinutes == 5
MaxIntervalMinutes == 1440

\* a configuration whose interval is n minutes, in config.json
ConfigWithInterval(n) == [ConfigWithRepo EXCEPT !.sync.intervalMinutes = n]
IntervalChoices ==
    {MinIntervalMinutes - 1, MinIntervalMinutes, MaxIntervalMinutes, MaxIntervalMinutes + 1}
IntervalFiles == {FileOf(ConfigWithInterval(n)) : n \in IntervalChoices}

NoConfig == [none |-> TRUE]

\* a variant whose schema accepts any number of minutes
loadConfig_anyInterval(file) ==
    IF ~file.exists \/ ~file.json THEN [threw |-> TRUE, config |-> NoConfig]
    ELSE [threw |-> FALSE, config |-> file.value]

\* KnowledgeBaseStorage.loadConfig: read, JSON.parse, KnowledgeBaseConfigSchema.parse
loadConfig(file) ==
    IF ~file.exists \/ ~file.json THEN [threw |-> TRUE, config |-> NoConfig]
    ELSE IF file.value.sync.intervalMinutes < MinIntervalMinutes
            \/ file.value.sync.intervalMinutes > MaxIntervalMinutes
         THEN [threw |-> TRUE, config |-> NoConfig]
    ELSE [threw |-> FALSE, config |-> file.value]

-----------------------------------------------------------------------------
(* GitHubSync: the repository sources.                                     *)

getOfficialMCPRepos ==
    <<Repo("modelcontextprotocol", "servers"),
      Repo("modelcontextprotocol", "typescript-sdk"),
      Repo("modelcontextprotocol", "specification")>>

getCommunityMCPRepos ==
    <<Repo("punkpeye", "awesome-mcp-servers"),
      Repo("wong2", "awesome-mcp-servers")>>

\* what the calls of discoverUserRepos answer: users.getAuthenticated,
\* repos.listForUser, and the repositories whose .claude probe fails although
\* the directory exists
DiscoverOutcomes ==
    {[userOk |-> u, listOk |-> l, probeFails |-> pf] :
        u \in BOOLEAN, l \in BOOLEAN, pf \in SUBSET HasClaudeDir}

FaultsInDiscovery(out) ==
    IF ~out.userOk \/ ~out.listOk THEN 1 ELSE Cardinality(out.probeFails)

\* hasCludeDirectory: any failure of the probe counts as "no directory"
hasCludeDirectory(r, out) == r \in HasClaudeDir /\ r \notin out.probeFails

\* the body of the try block of discoverUserRepos
TryDiscover(out) ==
    IF ~out.userOk \/ ~out.listOk THEN [raised |-> TRUE, repos |-> <<>>]
    ELSE [raised |-> FALSE,
          repos |-> SelectSeq2(ListForUser,
                       {i \in 1..Len(ListForUser) : hasCludeDirectory(ListForUser[i], out)})]

\* the catch block of discoverUserRepos: the exception is logged and []
\* returned
CatchDiscover(r) ==
    IF r.raised THEN [threw |-> FALSE, logged |-> TRUE, repos |-> <<>>]
    ELSE [threw |-> FALSE, logged |-> FALSE, repos |-> r.repos]

RethrowDiscover(r) == [threw |-> r.raised, logged |-> FALSE, repos |-> r.repos]

\* a variant of discoverUserRepos without its try/catch
discoverUserRepos_noCatch(out) == RethrowDiscover(TryDiscover(out))

\* GitHubSync.discoverUserRepos() under the answers `out`
discoverUserRepos(out) == CatchDiscover(TryDiscover(out))

\* one call of fetchFilesFromRepo made by syncKnowledgeBase
Job(r, branch, includePatterns, excludePatterns) ==
    [owner |-> r.owner, repo |-> r.repo, branch |-> branch,
     includePatterns |-> includePatterns, excludePatterns |-> excludePatterns]

\* the excludePatterns default of fetchFilesFromRepo
DefaultExcludePatterns == <<pat_node_modules>>

UserJobs(repos) ==
    [i \in 1..Len(repos) |-> Job(repos[i], Main, <<pat_claude_md, pat_mcp_json>>, DefaultExcludePatterns)]

OfficialJobs(config) ==
    IF config.sync.includeOfficialMCPRepos
    THEN [i \in 1..Len(getOfficialMCPRepos) |->
            Job(getOfficialMCPRepos[i], Main, <<pat_any_md, pat_package_json>>, DefaultExcludePatterns)]
    ELSE <<>>

CommunityJobs(config) ==
    IF config.sync.includeCommunityRepos
    THEN [i \in 1..Len(getCommunityMCPRepos) |->
            Job(getCommunityMCPRepos[i], Main, <<pat_any_md>>, DefaultExcludePatterns)]
    ELSE <<>>

ConfiguredJobs(config) ==
    LET enabled == SelectSeq2(config.repositories,
                      {i \in 1..Len(config.repositories) : config.repositories[i].indexingEnabled})
    IN  [i \in 1..Len(enabled) |->
            Job(enabled[i], enabled[i].branch, enabled[i].includePatterns, enabled[i].excludePatterns)]

\* the calls syncKnowledgeBase makes after the user repositories, in order
JobsAfterDiscovery(config) ==
    OfficialJobs(config) \o CommunityJobs(config) \o ConfiguredJobs(config)

-----------------------------------------------------------------------------
(* index.ts: main, the timer, the update_knowledge_base tool and           *)
(* syncKnowledgeBase.                                                      *)

Passes == 1..MaxPasses

\* the calls of fetchFilesFromRepo that syncKnowledgeBase makes, in order,
\* for a configuration and the user repositories discovered
Plan(config, userRepos) == UserJobs(userRepos) \o JobsAfterDiscovery(config)

\* a slot that holds no invocation.  An invocation holds its arguments and
\* local variables: force, config, userRepos, and `next`, the position in
\* Plan(config, userRepos) of the call it is waiting for.  discovery,
\* failedJobs and startIds record what it has met so far: how discovery
\* ended, the positions of the calls that met a failure, and, for a call
\* with force = false, the ids in the index when it was called.  origin is
\* "main" for the call main() awaits, "timer" for the call of the timer
\* callback, "callback" for a call made by the
\* timer callback or the tool handler
IdlePass ==
    [pc |-> "idle", force |-> FALSE, origin |-> "none", config |-> NoConfig,
     userRepos |-> <<>>, next |-> 0, discovery |-> "none", failedJobs |-> {}, startIds |-> {}]

\* the calls the invocation in slot p is bound to make
Planned(p) == Plan(pass[p].config, pass[p].userRepos)

InFlight(p) == pass[p].pc # "idle"

\* the slot a new invocation takes
FreeSlot == CHOOSE p \in Passes : ~InFlight(p) /\ \A q \in Passes : ~InFlight(q) => p <= q

\* syncKnowledgeBase(force) is called: githubSync is set, so it goes on to
\* `await storage.loadConfig()`
BeginSync(force, origin) ==
    /\ started < MaxSyncs
    /\ \E p \in Passes : ~InFlight(p)
    /\ started' = started + 1
    /\ pass' = [pass EXCEPT ![FreeSlot] =
                  [IdlePass EXCEPT !.pc = "loadConfig", !.force = force, !.origin = origin,
                                   !.startIds = IF force THEN {} ELSE Ids(documents)]]

\* where main() goes when the invocation in slot p returns ("done") or
\* throws ("failed"): main() awaits the initial sync, then loads the
\* configuration; its catch block logs the exception and goes on to connect
\* the server.  The timer callback and the tool handler catch and log
MainAfter(p, outcome) ==
    IF pass[p].origin # "main" \/ outcome = "running" THEN mainPc
    ELSE IF outcome = "done" THEN "loadConfig" ELSE "serving"

\* setupPeriodicSync(intervalMinutes): any armed timer is cleared and a new
\* one armed
setupPeriodicSync(timer, intervalMinutes) == intervalMinutes

\* a variant of main() without its inner try/catch: the exception of
\* getToken reaches the outer catch, which exits the process
MainAfterGetToken_fatal(tokenFound) == IF tokenFound THEN "initialSync" ELSE "exited"

\* where main() goes after GitHubSync.getToken(): on to the initial sync, or,
\* the exception being caught and logged, on to connect the server
MainAfterGetToken(tokenFound) == IF tokenFound THEN "initialSync" ELSE "serving"

\* main() up to the initial sync: storage.initialize() writes the default
\* configuration when there is none; without a token the server is connected
\* without GitHub integration
MainStart ==
    /\ mainPc = "start"
    /\ configFile' = IF configFile.exists THEN configFile ELSE FileOf(DefaultConfig)
    /\ \E tokenFound \in BOOLEAN :
          /\ mainPc' = MainAfterGetToken(tokenFound)
          /\ IF tokenFound
             THEN githubSync' = TRUE /\ BeginSync(FALSE, "main")
             ELSE UNCHANGED <<githubSync, pass, started>>
    /\ UNCHANGED <<documents, syncInterval, faults, now, blocklistFile, call, probe>>

\* main() after the initial sync has returned: the timer is armed when the
\* configuration loads and has sync enabled; an exception of loadConfig is
\* caught and logged; then the server is connected
MainSetupPeriodicSync ==
    /\ mainPc = "loadConfig"
    /\ LET r == loadConfig(configFile)
       IN  syncInterval' =
              IF ~r.threw /\ r.config.sync.enabled
              THEN setupPeriodicSync(syncInterval, r.config.sync.intervalMinutes)
              ELSE syncInterval
    /\ mainPc' = "serving"
    /\ UNCHANGED <<documents, githubSync, configFile, pass, started, faults, now,
                   blocklistFile, call, probe>>

\* a variant of the callback that forces the pass
PeriodicForce_forced == TRUE

\* the argument of the setInterval callback's syncKnowledgeBase(false)
PeriodicForce == FALSE

\* the setInterval callback: syncKnowledgeBase(false)
TimerTick ==
    /\ mainPc # "exited"
    /\ syncInterval # 0
    /\ BeginSync(PeriodicForce, "timer")
    /\ UNCHANGED <<documents, githubSync, syncInterval, mainPc, configFile, faults, now,
                   blocklistFile, call, probe>>

\* the update_knowledge_base tool: an error reply without GitHub integration,
\* else syncKnowledgeBase(args.force)
UpdateKnowledgeBase ==
    /\ mainPc = "serving"
    /\ \E force \in BOOLEAN :
          IF ~githubSync THEN UNCHANGED <<pass, started>> ELSE BeginSync(force, "callback")
    /\ UNCHANGED <<documents, githubSync, syncInterval, mainPc, configFile, faults, now,
                   blocklistFile, call, probe>>

\* what becomes of an invocation after an awaited call: it has thrown
\* ("failed"), it has no call left and returns ("done"), or it goes on
Outcome(threw, last) == IF threw THEN "failed" ELSE IF last THEN "done" ELSE "running"

\* a variant of syncKnowledgeBase that clears the index before it loads the
\* configuration
IndexAfterLoadConfig_clearFirst(docs, threw, force) == IF force THEN clear(docs) ELSE docs

\* the index after `await storage.loadConfig()` and `if (force) clear()`:
\* the clear is not reached when loadConfig throws
IndexAfterLoadConfig(docs, threw, force) == IF ~threw /\ force THEN clear(docs) ELSE docs

\* syncKnowledgeBase resumes after loadConfig: an exception leaves the
\* function; else the index is cleared when forced, and the function goes on
\* to the first provider call, or returns when there is none to make
SyncLoadConfig(p) ==
    /\ pass[p].pc = "loadConfig"
    /\ \E r \in {loadConfig(configFile)} :
       \E outcome \in {Outcome(r.threw, ~r.threw /\ ~r.config.sync.autoDiscoverUserRepos
                                          /\ Plan(r.config, <<>>) = <<>>)} :
          /\ documents' = IndexAfterLoadConfig(documents, r.threw, pass[p].force)
          /\ pass' = [pass EXCEPT ![p] =
                        IF outcome # "running" THEN IdlePass
                        ELSE [@ EXCEPT !.config = r.config,
                                       !.next = 1,
                                       !.pc = IF r.config.sync.autoDiscoverUserRepos
                                              THEN "discover" ELSE "fetch"]]
          /\ mainPc' = MainAfter(p, outcome)
    /\ UNCHANGED <<githubSync, syncInterval, configFile, started, faults, now,
                   blocklistFile, call, probe>>

\* syncKnowledgeBase resumes after discoverUserRepos
DiscoverStep(p, out) ==
    /\ \E r \in {discoverUserRepos(out)} :
       \E outcome \in {Outcome(r.threw, Plan(pass[p].config, r.repos) = <<>>)} :
          /\ pass' = [pass EXCEPT ![p] =
                        IF outcome # "running" THEN IdlePass
                        ELSE [@ EXCEPT !.discovery = IF r.logged THEN "failed" ELSE "ok",
                                       !.userRepos = r.repos,
                                       !.pc = "fetch"]]
          /\ mainPc' = MainAfter(p, outcome)
    /\ UNCHANGED <<documents, githubSync, syncInterval, configFile, started, now,
                   blocklistFile, call, probe>>

\* the step above under any answers of the provider, the failed calls
\* counted
SyncDiscover(p) ==
    /\ pass[p].pc = "discover"
    /\ \E out \in DiscoverOutcomes :
          /\ faults + FaultsInDiscovery(out) <= MaxFaults
          /\ faults' = faults + FaultsInDiscovery(out)
          /\ DiscoverStep(p, out)

\* the step above while the provider is unavailable: users.getAuthenticated
\* fails
OutageDiscover(p) ==
    /\ pass[p].pc = "discover"
    /\ faults' = faults
    /\ DiscoverStep(p, [userOk |-> FALSE, listOk |-> FALSE, probeFails |-> {}])

\* a variant of the loops that goes back and forth between the first two
\* repositories
NextJob_backAndForth(next) == IF next = 1 THEN 2 ELSE 1

\* the for...of loops of syncKnowledgeBase go on to the next repository
NextJob(next) == next + 1

\* syncKnowledgeBase resumes after fetchFilesFromRepo for the next
\* repository and adds what it returned to the index; after the last one it
\* returns
FetchStep(p, job, out) ==
    /\ \E r \in {fetchFilesFromRepo(job.owner, job.repo, job.branch,
                                     job.includePatterns, job.excludePatterns, out, now)} :
       \E outcome \in {Outcome(r.threw, pass[p].next = Len(Planned(p)))} :
          /\ documents' = IF r.threw THEN documents
                          ELSE addDocuments(documents, r.documents)
          /\ pass' = [pass EXCEPT ![p] =
                        IF outcome # "running" THEN IdlePass
                        ELSE [@ EXCEPT !.next = NextJob(@),
                                       !.failedJobs =
                                           IF r.logged THEN @ \cup {pass[p].next} ELSE @]]
          /\ mainPc' = MainAfter(p, outcome)
    /\ UNCHANGED <<githubSync, syncInterval, configFile, started, now, blocklistFile, call>>

\* the step above under any answers of the provider, the failed calls
\* counted
SyncFetch(p) ==
    /\ pass[p].pc = "fetch"
    /\ probe' = probe
    /\ \E job \in {Planned(p)[pass[p].next]} :
       \E out \in FetchOutcomes(job.owner, job.repo) :
          /\ faults + FaultsIn(out) <= MaxFaults
          /\ faults' = faults + FaultsIn(out)
          /\ FetchStep(p, job, out)

\* the step above while the provider is unavailable: git.getTree fails
OutageFetch(p) ==
    /\ pass[p].pc = "fetch"
    /\ faults' = faults
    /\ probe' = probe
    /\ \E job \in {Planned(p)[pass[p].next]} :
          FetchStep(p, job, [mkdirOk |-> TRUE, treeOk |-> FALSE, tree |-> <<>>,
                             failBlobs |-> {}, failWrites |-> {}])

\* the user edits config.json.  An edit shows only at the next loadConfig, so
\* the model follows the edits made while a loadConfig is under way
EditConfig ==
    /\ mainPc = "loadConfig" \/ \E p \in Passes : pass[p].pc = "loadConfig"
    /\ configFile' \in ConfigFiles \ {configFile}
    /\ UNCHANGED <<documents, githubSync, syncInterval, mainPc, pass, started, faults, now,
                   blocklistFile, call, probe>>

\* SIGINT / SIGTERM: the timer is cleared and the process exits
Shutdown ==
    /\ mainPc # "exited"
    /\ mainPc' = "exited"
    /\ syncInterval' = 0
    /\ githubSync' = FALSE
    /\ documents' = <<>>
    /\ pass' = [p \in Passes |-> IdlePass]
    /\ UNCHANGED <<configFile, started, faults, now, blocklistFile, call, probe>>

-----------------------------------------------------------------------------
(* KnowledgeBaseStorage: the blocklist ledger.                             *)
(*                                                                         *)
(* A JavaScript object is the sequence of its own properties in insertion  *)
(* order: <<key, value>> for a property with a value, <<key>> for one      *)
(* whose value is undefined.  What JSON.parse gives back from the file is  *)
(* a function from the keys to the values.                                 *)

Calls == 1..MaxCalls

\* Array.prototype.sort() on the property names of a blocklist entry: the
\* names in ascending order of UTF-16 code units
SortedNames ==
    <<"allowOverride", "hash", "pattern", "reason", "serverName", "source", "timestamp",
      "type", "version">>

\* Object.keys(data): the own property names, in insertion order
ObjectKeys(data) == [i \in 1..Len(data) |-> data[i][1]]

\* keys.sort()
Sort(keys) == SelectSeq2(SortedNames, {i \in 1..Len(SortedNames) : SortedNames[i] \in SeqToSet(keys)})

\* the property of an object under a name it has
PropertyOf(data, key) == data[CHOOSE j \in 1..Len(data) : data[j][1] = key]

\* whether the object has the name as a property with a value
HasValue(data, key) == \E j \in 1..Len(data) : data[j][1] = key /\ Len(data[j]) = 2

\* the text JSON.stringify writes for the properties named, in that order
Serialised(data, names) == [i \in 1..Len(names) |-> PropertyOf(data, names[i])]

\* JSON.stringify(data, allowlist): the properties named in the allowlist
\* that have a value, in the order of the allowlist
JSONStringify(data, allowlist) ==
    Serialised(data,
               SelectSeq2(allowlist, {k \in 1..Len(allowlist) : HasValue(data, allowlist[k])}))

\* a variant of calculateHash that serialises the properties the
\* add_blocklist_entry handler sets, whatever the object holds
calculateHash_handlerFields(data) ==
    <<"sha256", JSONStringify(data, <<"allowOverride", "pattern", "reason", "serverName",
                                      "source", "timestamp", "type">>)>>

\* a variant of calculateHash that serialises the properties in the order
\* they were supplied
calculateHash_unsorted(data) == <<"sha256", JSONStringify(data, ObjectKeys(data))>>

\* KnowledgeBaseStorage.calculateHash(data): SHA-256 of the canonical text,
\* kept as the text itself (no two texts of the model collide)
calculateHash(data) == <<"sha256", JSONStringify(data, Sort(ObjectKeys(data)))>>

\* JSON.parse(JSON.stringify(object)): the properties that have a value
Stored(object) ==
    [key \in {object[i][1] : i \in {j \in 1..Len(object) : Len(object[j]) = 2}} |->
        PropertyOf(object, key)[2]]

\* { ...entry, hash }
WithHash(entry, hash) == Append(entry, <<"hash", hash>>)

\* the object the add_blocklist_entry handler builds from its arguments
HandlerEntry(time, serverName) ==
    <<<<"timestamp", time>>, <<"type", "server">>, <<"serverName", serverName>>, <<"pattern">>,
      <<"reason", "unsafe">>, <<"allowOverride", FALSE>>, <<"source", "user">>>>

\* the same properties supplied in another order by another caller of
\* addBlocklistEntry
ReorderedEntry(time, serverName) ==
    <<<<"source", "user">>, <<"reason", "unsafe">>, <<"serverName", serverName>>,
      <<"type", "server">>, <<"allowOverride", FALSE>>, <<"pattern">>, <<"timestamp", time>>>>

\* the server names of the requests: AddBlocklistEntrySchema takes any
\* string, the empty one included
ServerNames == {"@a/mcp", "@b/mcp", ""}

\* the entries a caller may hand to addBlocklistEntry at a given time
EntriesAt(time) ==
    {HandlerEntry(time, n) : n \in ServerNames} \cup {ReorderedEntry(time, n) : n \in ServerNames}

\* the blocklist as ensureDefaultFiles writes it
DefaultBlocklist(time) == [version |-> "1.0.0", lastUpdated |-> time, entries |-> <<>>]

\* a slot that holds no invocation of addBlocklistEntry.  An invocation
\* holds its argument `entry` and its local `blocklist`; `before` and
\* `calledAt` record the entries in the file and the time when it was called
IdleCall ==
    [pc |-> "idle", entry |-> <<>>, blocklist |-> DefaultBlocklist(0), before |-> <<>>,
     calledAt |-> 0]

CallInFlight(c) == call[c].pc # "idle"

\* addBlocklistEntry(entry) is called: it goes on to `await loadBlocklist()`
AddBlocklistEntry ==
    /\ mainPc = "serving"
    /\ Len(blocklistFile.entries) + Cardinality({c \in Calls : CallInFlight(c)}) < MaxEntries
    /\ \E c \in Calls : \E entry \in EntriesAt(now) :
          /\ ~CallInFlight(c)
          /\ \A d \in Calls : ~CallInFlight(d) => c <= d
          /\ call' = [call EXCEPT ![c] =
                        [IdleCall EXCEPT !.pc = "load", !.entry = entry,
                                         !.before = blocklistFile.entries,
                                         !.calledAt = now]]
    /\ UNCHANGED <<syncVars, now, blocklistFile, probe>>

\* addBlocklistEntry resumes after loadBlocklist: the hash is computed, the
\* entry pushed on the list just read, lastUpdated set, and the write begun
AddLoaded(c) ==
    /\ call[c].pc = "load"
    /\ call' = [call EXCEPT ![c] =
                  [@ EXCEPT !.pc = "save",
                            !.blocklist =
                                [version |-> blocklistFile.version,
                                 lastUpdated |-> now,
                                 entries |-> Append(blocklistFile.entries,
                                                Stored(WithHash(call[c].entry,
                                                                calculateHash(call[c].entry))))]]]
    /\ UNCHANGED <<syncVars, now, blocklistFile, probe>>

\* saveBlocklist completes: the file holds what this invocation wrote, and
\* addBlocklistEntry returns
AddSaved(c) ==
    /\ call[c].pc = "save"
    /\ blocklistFile' = call[c].blocklist
    /\ call' = [call EXCEPT ![c] = IdleCall]
    /\ UNCHANGED <<syncVars, now, probe>>

\* KnowledgeBaseStorage.loadBlocklist on the file as it stands: the parsed
\* content.  It computes no hash and logs nothing, so the list of the
\* entries it warns about is empty
loadBlocklist(file) == [threw |-> FALSE, blocklist |-> file, warnings |-> <<>>]

\* an optional argument: <<>> for undefined, <<v>> for the value v
Undefined == <<>>
Given(v) == <<v>>

\* the truthiness test `if (arg)` on an optional string: undefined and the
\* empty string are falsy.  A server name is a string of the model, "" the
\* empty one; a pattern is a sequence of characters, <<>> the empty one
Truthy(arg, empty) == arg # Undefined /\ arg[1] # empty

\* entries.find(predicate): the positions of the entries that satisfy it
\* are given; the first one, 0 when there is none
Find(hits) == IF hits = {} THEN 0 ELSE CHOOSE i \in hits : \A j \in hits : i <= j

\* e.type === 'server' && e.serverName === serverName
IsServerEntryFor(e, serverName) ==
    e.type = "server" /\ "serverName" \in DOMAIN e /\ e.serverName = serverName

\* e.type === 'file_pattern' && e.pattern === pattern
IsPatternEntryFor(e, pattern) ==
    e.type = "file_pattern" /\ "pattern" \in DOMAIN e /\ e.pattern = pattern

\* the reply of isBlocked from the positions found
BlockedReply(entries, serverHit, patternHit) ==
    IF serverHit # 0 THEN [blocked |-> TRUE, reason |-> Given(entries[serverHit].reason)]
    ELSE IF patternHit # 0 THEN [blocked |-> TRUE, reason |-> Given(entries[patternHit].reason)]
    ELSE [blocked |-> FALSE, reason |-> Undefined]

\* KnowledgeBaseStorage.isBlocked(serverName, pattern) on the blocklist it
\* has loaded
isBlocked(blocklist, serverName, pattern) ==
    BlockedReply(blocklist.entries,
       IF Truthy(serverName, "")
       THEN Find({i \in 1..Len(blocklist.entries) :
                     IsServerEntryFor(blocklist.entries[i], serverName[1])})
       ELSE 0,
       IF Truthy(pattern, <<>>)
       THEN Find({i \in 1..Len(blocklist.entries) :
                     IsPatternEntryFor(blocklist.entries[i], pattern[1])})
       ELSE 0)

\* time passes
Tick ==
    /\ now < MaxClock
    /\ now' = now + 1
    /\ UNCHANGED <<syncVars, blocklistFile, call, probe>>

NoProbe == [op |-> "none"]

\* the ledger after storage.initialize() on a fresh directory, with no
\* invocation under way
EmptyLedgerVars ==
    /\ blocklistFile = DefaultBlocklist(0)
    /\ call = [c \in Calls |-> IdleCall]
    /\ probe = NoProbe

Init ==
    /\ documents = <<>>
    /\ githubSync = FALSE
    /\ syncInterval = 0
    /\ mainPc = "start"
    /\ configFile \in {MissingFile, FileOf(ConfigWithRepo)}
    /\ pass = [p \in Passes |-> IdlePass]
    /\ started = 0
    /\ faults = 0
    /\ now = 0
    /\ EmptyLedgerVars

Next ==
    \/ MainStart
    \/ MainSetupPeriodicSync
    \/ TimerTick
    \/ UpdateKnowledgeBase
    \/ \E p \in Passes : SyncLoadConfig(p)
    \/ \E p \in Passes : SyncDiscover(p)
    \/ \E p \in Passes : SyncFetch(p)
    \/ EditConfig
    \/ Shutdown

Spec == Init /\ [][Next]_vars

\* every call to storage and to the provider returns: an invocation that
\* waits for loadConfig, discoverUserRepos or fetchFilesFromRepo resumes
\* (a `faults` budget that is used up leaves the answers without failure).
\* The last conjunct is WF_vars(SyncFetch(p)) with its enabling condition
\* written out: SyncFetch(p) can take a step exactly when the invocation
\* waits for fetchFilesFromRepo
CallsReturn ==
    \A p \in Passes :
       /\ WF_vars(SyncLoadConfig(p))
       /\ WF_vars(SyncDiscover(p))
       /\ ([]<>(pass[p].pc # "fetch") \/ []<><<SyncFetch(p)>>_vars)

\* the server with config.json left as it is
NextLive ==
    \/ MainStart
    \/ MainSetupPeriodicSync
    \/ TimerTick
    \/ UpdateKnowledgeBase
    \/ \E p \in Passes : SyncLoadConfig(p)
    \/ \E p \in Passes : SyncDiscover(p)
    \/ \E p \in Passes : SyncFetch(p)
    \/ Shutdown

SpecLive == Init /\ [][NextLive]_vars /\ CallsReturn

\* the server connected and at rest: no GitHub integration, nothing indexed
AtRest ==
    /\ documents = <<>>
    /\ githubSync = FALSE
    /\ syncInterval = 0
    /\ mainPc = "serving"
    /\ configFile = FileOf(DefaultConfig)
    /\ pass = [p \in Passes |-> IdlePass]
    /\ started = 0
    /\ faults = 0
    /\ now = 0

\* the ledger alone: add_blocklist_entry requests while the server is at rest
InitLedger == AtRest /\ EmptyLedgerVars

NextLedger ==
    \/ AddBlocklistEntry
    \/ \E c \in Calls : AddLoaded(c)
    \/ \E c \in Calls : AddSaved(c)
    \/ Tick

SpecLedger == InitLedger /\ [][NextLedger]_vars

-----------------------------------------------------------------------------
(* The search engine alone: addDocuments and clear called directly.        *)

\* the documents fetchFilesFromRepo may build for two files of one
\* repository, each with two contents
DocUniverse ==
    {Document(userRepo3.owner, userRepo3.repo, Main, Blob(path, sha, 3), 0) :
        path \in {p_readme_md, p_a_b_md}, sha \in {"s1", "s2"}}

\* the batches of at most MaxBatch documents
Batches == UNION {[1..n -> DocUniverse] : n \in 0..MaxBatch}

\* searchEngine.addDocuments(batch)
IndexAddDocuments ==
    /\ \E batch \in Batches :
          /\ documents' = addDocuments(documents, batch)
          /\ probe' = [op |-> "addDocuments", before |-> documents, batch |-> batch]
    /\ UNCHANGED <<githubSync, syncInterval, mainPc, configFile, pass, started, faults, now,
                   blocklistFile, call>>

\* searchEngine.clear()
IndexClear ==
    /\ documents' = clear(documents)
    /\ probe' = [op |-> "clear", before |-> documents, batch |-> <<>>]
    /\ UNCHANGED <<githubSync, syncInterval, mainPc, configFile, pass, started, faults, now,
                   blocklistFile, call>>

InitIndex == AtRest /\ EmptyLedgerVars

NextIndex == IndexAddDocuments \/ IndexClear

SpecIndex == InitIndex /\ [][NextIndex]_vars

-----------------------------------------------------------------------------
(* fetchFilesFromRepo alone: one call on given arguments and answers.      *)

\* the include and exclude pattern lists tried
IncludeLists == {<<>>, <<pat_star_md>>, <<pat_any_md>>, <<pat_star_md, pat_any_md>>,
                 <<pat_claude_md, pat_mcp_json>>, <<pat_unterminated>>,
                 <<pat_star_md, pat_unterminated>>}
ExcludeLists == {<<>>, DefaultExcludePatterns, <<pat_any_md>>, <<pat_unterminated>>}

NoResult == [threw |-> FALSE, logged |-> FALSE, documents |-> <<>>]

\* the arguments of a call and the answers it will get
InitFetch ==
    /\ AtRest
    /\ blocklistFile = DefaultBlocklist(0)
    /\ call = [c \in Calls |-> IdleCall]
    /\ \E r \in {userRepo1, userRepo3} : \E inc \in IncludeLists : \E exc \in ExcludeLists :
       \E out \in FetchOutcomes(r.owner, r.repo) :
          probe = [op |-> "fetchFilesFromRepo", owner |-> r.owner, repo |-> r.repo,
                   includePatterns |-> inc, excludePatterns |-> exc, out |-> out,
                   returned |-> FALSE, result |-> NoResult]

\* the call is made
FetchReturns ==
    /\ probe.op = "fetchFilesFromRepo"
    /\ ~probe.returned
    /\ probe' = [probe EXCEPT
                    !.returned = TRUE,
                    !.result = fetchFilesFromRepo(probe.owner, probe.repo, Main,
                                                  probe.includePatterns, probe.excludePatterns,
                                                  probe.out, now)]
    /\ UNCHANGED <<syncVars, now, blocklistFile, call>>

NextFetch == FetchReturns

SpecFetch == InitFetch /\ [][NextFetch]_vars

-----------------------------------------------------------------------------
\* matchPattern alone: one call on a path and a pattern

InitMatch ==
    /\ AtRest
    /\ blocklistFile = DefaultBlocklist(0)
    /\ call = [c \in Calls |-> IdleCall]
    /\ \E filePath \in KnownPaths : \E pattern \in KnownPatterns :
          probe = [op |-> "matchPattern", filePath |-> filePath, pattern |-> pattern,
                   returned |-> FALSE, result |-> "none"]

\* the call is made
MatchReturns ==
    /\ probe.op = "matchPattern"
    /\ ~probe.returned
    /\ probe' = [probe EXCEPT !.returned = TRUE,
                              !.result = matchPattern(probe.filePath, probe.pattern)]
    /\ UNCHANGED <<syncVars, now, blocklistFile, call>>

NextMatch == MatchReturns

SpecMatch == InitMatch /\ [][NextMatch]_vars

-----------------------------------------------------------------------------
(* calculateHash alone: two entries hashed side by side.                   *)

\* the values each field of an entry is drawn from: BlocklistEntrySchema
\* without the hash, an optional field being left undefined or given
FieldChoices ==
    <<{<<"timestamp", 0>>, <<"timestamp", 1>>},
      {<<"type", "server">>, <<"type", "file_pattern">>},
      {<<"serverName", "@a/mcp">>, <<"serverName", "@b/mcp">>},
      {<<"version">>, <<"version", "1.0.0">>},
      {<<"pattern">>, <<"pattern", pat_star_md>>},
      {<<"reason", "unsafe">>, <<"reason", "unused">>},
      {<<"allowOverride", FALSE>>, <<"allowOverride", TRUE>>},
      {<<"source", "user">>, <<"source", "system">>}>>

\* the entries without hash, their properties in the order of the schema
EntryObjects ==
    {<<timestamp, type, serverName, version, pattern, reason, allowOverride, source>> :
        timestamp \in FieldChoices[1], type \in FieldChoices[2], serverName \in FieldChoices[3],
        version \in FieldChoices[4], pattern \in FieldChoices[5], reason \in FieldChoices[6],
        allowOverride \in FieldChoices[7], source \in FieldChoices[8]}

\* the same object with its properties inserted in the opposite order
Reversed(object) == [i \in 1..Len(object) |-> object[Len(object) + 1 - i]]

\* the positions at which two entries differ
DifferAt(a, b) == {i \in 1..Len(a) : a[i] # b[i]}

\* two entries that differ in at most one field, the second supplied in
\* either order
InitHash ==
    /\ AtRest
    /\ blocklistFile = DefaultBlocklist(0)
    /\ call = [c \in Calls |-> IdleCall]
    /\ \E a \in EntryObjects : \E b \in EntryObjects : \E reversed \in BOOLEAN :
          /\ Cardinality(DifferAt(a, b)) <= 1
          /\ probe = [op |-> "calculateHash", a |-> a, b |-> b,
                      supplied |-> IF reversed THEN Reversed(b) ELSE b,
                      returned |-> FALSE, hashA |-> <<>>, hashB |-> <<>>]

\* both are hashed
HashReturns ==
    /\ probe.op = "calculateHash"
    /\ ~probe.returned
    /\ probe' = [probe EXCEPT !.returned = TRUE,
                              !.hashA = calculateHash(probe.a),
                              !.hashB = calculateHash(probe.supplied)]
    /\ UNCHANGED <<syncVars, now, blocklistFile, call>>

NextHash == HashReturns

SpecHash == InitHash /\ [][NextHash]_vars

-----------------------------------------------------------------------------
\* search_knowledge_base requests on indexes of every shape

\* the contents of the documents searched
Contents ==
    {<<>>,
     <<"f", "o", "o">>,
     <<"F", "o", "o", " ", "f", "o", "o">>,
     <<"a", "A", "a", "a", "a", "a", "a", "a", "a", "a", "a">>}

\* the documents a sync pass may hand to the index
SearchUniverse ==
    {[Document(userRepo3.owner, userRepo3.repo, Main, Blob(path, "s1", 3), 0)
         EXCEPT !.content = content] :
        path \in {p_readme_md, p_a_b_md, p_notes_txt}, content \in Contents}

\* the queries of the requests
Queries ==
    {<<>>, <<"f", "o", "o">>, <<"F", "O", "O">>, <<"o">>, <<"a">>, <<"a", "a">>, <<"b">>}

\* the values of maxResults, in tenths: SearchKnowledgeBaseSchema takes
\* any number from 1 to 50, whole or not
MaxResultsChoices == {10 * n : n \in 1..MaxMaxResults} \cup {15}

\* searchEngine.addDocuments with one document
SearchAddDocument ==
    /\ \E doc \in SearchUniverse : documents' = addDocuments(documents, <<doc>>)
    /\ probe' = NoProbe
    /\ UNCHANGED <<githubSync, syncInterval, mainPc, configFile, pass, started, faults, now,
                   blocklistFile, call>>

\* the search_knowledge_base handler
SearchKnowledgeBase ==
    /\ \E query \in Queries : \E maxResults \in MaxResultsChoices :
          probe' = [op |-> "search", query |-> query, maxResults |-> maxResults,
                    results |-> search(documents, query, maxResults)]
    /\ UNCHANGED <<syncVars, now, blocklistFile, call>>

InitSearch == AtRest /\ EmptyLedgerVars

\* a content of the given length: the word "Foo" at the given offset,
\* counted from 0, and dashes around it
ContentWith(length, offset) ==
    [i \in 1..length |->
        IF i = offset + 1 THEN "F" ELSE IF i \in {offset + 2, offset + 3} THEN "o" ELSE "-"]

\* contents shorter and longer than the reach of a snippet
LongContents ==
    {ContentWith(length, offset) :
        length \in {SnippetAfter - 1, SnippetAfter + 3, SnippetBefore + SnippetAfter + 3,
                    SnippetBefore + SnippetAfter + 10},
        offset \in {0, 1, SnippetBefore - 1, SnippetBefore, SnippetBefore + 1, SnippetBefore + 7}}

\* the index after a sync pass has stored one document
InitSnippet ==
    /\ githubSync = TRUE
    /\ syncInterval = 0
    /\ mainPc = "serving"
    /\ configFile = FileOf(DefaultConfig)
    /\ pass = [p \in Passes |-> IdlePass]
    /\ started = 0
    /\ faults = 0
    /\ now = 0
    /\ blocklistFile = DefaultBlocklist(0)
    /\ call = [c \in Calls |-> IdleCall]
    /\ probe = NoProbe
    /\ \E content \in LongContents :
          documents = <<[Document(userRepo3.owner, userRepo3.repo, Main,
                                  Blob(p_readme_md, "s1", 3), 0) EXCEPT !.content = content]>>

NextSnippet == SearchKnowledgeBase

SpecSnippet == InitSnippet /\ [][NextSnippet]_vars

NextSearch == SearchAddDocument \/ SearchKnowledgeBase

SpecSearch == InitSearch /\ [][NextSearch]_vars

-----------------------------------------------------------------------------
\* check_blocklist on ledgers of every shape

\* the object the add_blocklist_entry handler builds from the arguments of
\* a request
RequestEntry(type, serverName, pattern, reason) ==
    <<<<"timestamp", 0>>, <<"type", type>>, <<"serverName">> \o serverName,
      <<"pattern">> \o pattern, <<"reason", reason>>, <<"allowOverride", FALSE>>,
      <<"source", "user">>>>

\* the entry as addBlocklistEntry stores it
Appended(entry) == Stored(WithHash(entry, calculateHash(entry)))

\* a stored entry after the file was edited by hand: one property is set,
\* the hash stays as it was written
EditedByHand(stored, key, value) == [stored EXCEPT ![key] = value]

\* the stored entries of the ledgers
LedgerEntries ==
    {Appended(RequestEntry("server", Given("@a/mcp"), Undefined, "unsafe")),
     Appended(RequestEntry("server", Given("@a/mcp"), Undefined, "unused")),
     Appended(RequestEntry("server", Given(""), Undefined, "unsafe")),
     EditedByHand(Appended(RequestEntry("server", Given("@b/mcp"), Undefined, "unsafe")),
                  "allowOverride", TRUE),
     EditedByHand(Appended(RequestEntry("server", Given("@b/mcp"), Undefined, "unsafe")),
                  "reason", "harmless"),
     Appended(RequestEntry("file_pattern", Undefined, Given(pat_star_md), "secret")),
     Appended(RequestEntry("file_pattern", Undefined, Given(pat_star_md), "large")),
     Appended(RequestEntry("file_pattern", Given("@a/mcp"), Given(pat_any_md), "generated"))}

\* the sequences of at most n entries
RECURSIVE LedgersUpTo(_)
LedgersUpTo(n) ==
    IF n = 0 THEN {<<>>}
    ELSE LedgersUpTo(n - 1) \cup
         {Append(l, e) : l \in {k \in LedgersUpTo(n - 1) : Len(k) = n - 1}, e \in LedgerEntries}

\* the arguments of check_blocklist
ServerNameArgs == {Undefined} \cup {Given(n) : n \in ServerNames}
PatternArgs == {Undefined, Given(<<>>), Given(pat_star_md), Given(pat_any_md), Given(p_readme_md)}

InitBlocked ==
    /\ AtRest
    /\ call = [c \in Calls |-> IdleCall]
    /\ \E entries \in LedgersUpTo(MaxLedger) :
          blocklistFile = [version |-> "1.0.0", lastUpdated |-> 0, entries |-> entries]
    /\ \E serverName \in ServerNameArgs : \E pattern \in PatternArgs :
          probe = [op |-> "check_blocklist", serverName |-> serverName, pattern |-> pattern,
                   returned |-> FALSE]

\* the check_blocklist handler: isBlocked loads the ledger and answers
CheckBlocklist ==
    /\ probe.op = "check_blocklist"
    /\ ~probe.returned
    /\ \E loaded \in {loadBlocklist(blocklistFile)} :
          probe' = [op |-> "check_blocklist", serverName |-> probe.serverName,
                    pattern |-> probe.pattern, returned |-> TRUE,
                    loaded |-> loaded,
                    result |-> isBlocked(loaded.blocklist, probe.serverName, probe.pattern)]
    /\ UNCHANGED <<syncVars, now, blocklistFile, call>>

NextBlocked == CheckBlocklist

SpecBlocked == InitBlocked /\ [][NextBlocked]_vars

-----------------------------------------------------------------------------
\* the server started over a ledger that already holds file_pattern entries

\* blocklist.json as earlier add_blocklist_entry requests of type
\* file_pattern have left it on disk
PatternLedger ==
    [version |-> "1.0.0", lastUpdated |-> 0,
     entries |-> <<Appended(RequestEntry("file_pattern", Undefined, Given(pat_star_md), "secret")),
                   Appended(RequestEntry("file_pattern", Undefined, Given(pat_claude_md), "secret"))>>]

InitExclusion ==
    /\ documents = <<>>
    /\ githubSync = FALSE
    /\ syncInterval = 0
    /\ mainPc = "start"
    /\ configFile \in {MissingFile, FileOf(ConfigWithRepo)}
    /\ pass = [p \in Passes |-> IdlePass]
    /\ started = 0
    /\ faults = 0
    /\ now = 0
    /\ blocklistFile = PatternLedger
    /\ call = [c \in Calls |-> IdleCall]
    /\ probe = NoProbe

NextExclusion ==
    \/ MainStart
    \/ MainSetupPeriodicSync
    \/ UpdateKnowledgeBase
    \/ \E p \in Passes : SyncLoadConfig(p)
    \/ \E p \in Passes : SyncDiscover(p)
    \/ \E p \in Passes : SyncFetch(p)

SpecExclusion == InitExclusion /\ [][NextExclusion]_vars

-----------------------------------------------------------------------------
\* the CallToolRequest handler, on the server started without a token

\* the values of the arguments of a request: numbers are in tenths
Undef == [t |-> "undefined"]
Str(v) == [t |-> "string", v |-> v]
Num(v) == [t |-> "number", v |-> v]
Bool(v) == [t |-> "boolean", v |-> v]

\* z.string().optional()
IsOptionalString(x) == x.t \in {"undefined", "string"}

\* the optional argument a parsed value stands for
Parsed(x) == IF x.t = "undefined" THEN Undefined ELSE Given(x.v)

\* SearchKnowledgeBaseSchema.parse succeeds
SearchArgsParse(a) ==
    /\ a.query.t = "string"
    /\ \/ a.maxResults.t = "undefined"
       \/ a.maxResults.t = "number" /\ a.maxResults.v >= 10 /\ a.maxResults.v <= 500

\* AddBlocklistEntrySchema.parse succeeds
AddArgsParse(a) ==
    /\ a.type.t = "string" /\ a.type.v \in {"server", "file_pattern"}
    /\ IsOptionalString(a.serverName)
    /\ IsOptionalString(a.pattern)
    /\ a.reason.t = "string"

\* CheckBlocklistSchema.parse succeeds
CheckArgsParse(a) == IsOptionalString(a.serverName) /\ IsOptionalString(a.pattern)

\* UpdateKnowledgeBaseSchema.parse succeeds
UpdateArgsParse(a) == a.force.t \in {"undefined", "boolean"}

\* the reply of the catch block of the handler
ErrorReply == [raised |-> FALSE, isError |-> TRUE]

\* the reply of a case that returns its content
ContentReply == [raised |-> FALSE, isError |-> FALSE]

\* the requests tried: the name of the tool and its arguments
SearchRequests ==
    {[name |-> "search_knowledge_base", arguments |-> [query |-> q, maxResults |-> m]] :
        q \in {Str(<<"f", "o", "o">>), Str(<<>>), Undef, Num(10)},
        m \in {Undef, Num(10), Num(15), Num(500), Num(0), Num(510), Bool(TRUE)}}

AddRequests ==
    {[name |-> "add_blocklist_entry",
      arguments |-> [type |-> t, serverName |-> n, pattern |-> Undef, reason |-> r]] :
        t \in {Str("server"), Str("file_pattern"), Str("other"), Undef},
        n \in {Undef, Str("@a/mcp"), Num(10)},
        r \in {Str("unsafe"), Undef}}

CheckRequests ==
    {[name |-> "check_blocklist", arguments |-> [serverName |-> n, pattern |-> Undef]] :
        n \in {Undef, Str("@a/mcp"), Str("@b/mcp"), Num(10)}}

UpdateRequests ==
    {[name |-> "update_knowledge_base", arguments |-> [force |-> f]] :
        f \in {Undef, Bool(TRUE), Bool(FALSE), Str("yes")}}

PlainRequests ==
    {[name |-> n, arguments |-> [none |-> Undef]] :
        n \in {"list_repositories", "get_mcp_specification", "delete_everything"}}

\* the state the module is in before a request
ServingWithoutToken ==
    /\ AtRest
    /\ blocklistFile = DefaultBlocklist(0)
    /\ call = [c \in Calls |-> IdleCall]
    /\ probe = NoProbe

\* case 'search_knowledge_base'
ToolSearch ==
    /\ mainPc = "serving"
    /\ \E request \in SearchRequests :
          probe' = [op |-> "tool", request |-> request, ioOk |-> TRUE,
                    reply |-> IF SearchArgsParse(request.arguments)
                              THEN ContentReply ELSE ErrorReply]
    /\ UNCHANGED <<syncVars, now, blocklistFile, call>>

\* case 'list_repositories', case 'get_mcp_specification' (the read of
\* specification.json may fail), and the default case, which throws
ToolPlain ==
    /\ mainPc = "serving"
    /\ \E request \in PlainRequests :
       \E ioOk \in IF request.name = "get_mcp_specification" THEN BOOLEAN ELSE {TRUE} :
          probe' = [op |-> "tool", request |-> request, ioOk |-> ioOk,
                    reply |-> IF request.name = "list_repositories" THEN ContentReply
                              ELSE IF request.name = "get_mcp_specification" /\ ioOk
                                   THEN ContentReply
                              ELSE ErrorReply]
    /\ UNCHANGED <<syncVars, now, blocklistFile, call>>

\* case 'add_blocklist_entry', no other call of addBlocklistEntry being
\* under way: the arguments are parsed, the ledger is read (which may
\* fail), the entry is appended and the file written
ToolAddBlocklistEntry ==
    /\ mainPc = "serving"
    /\ Len(blocklistFile.entries) < MaxLedger
    /\ \E request \in AddRequests : \E ioOk \in BOOLEAN :
          /\ probe' = [op |-> "tool", request |-> request, ioOk |-> ioOk,
                       reply |-> IF AddArgsParse(request.arguments) /\ ioOk
                                 THEN ContentReply ELSE ErrorReply]
          /\ blocklistFile' =
                IF AddArgsParse(request.arguments) /\ ioOk
                THEN [blocklistFile EXCEPT
                        !.entries = Append(@,
                            Appended(RequestEntry(request.arguments.type.v,
                                                  Parsed(request.arguments.serverName),
                                                  Parsed(request.arguments.pattern),
                                                  request.arguments.reason.v))),
                        !.lastUpdated = now]
                ELSE blocklistFile
    /\ UNCHANGED <<syncVars, now, call>>

\* case 'check_blocklist': the arguments are parsed, the ledger is read
\* (which may fail) and the answer of isBlocked returned
ToolCheckBlocklist ==
    /\ mainPc = "serving"
    /\ \E request \in CheckRequests : \E ioOk \in BOOLEAN :
          probe' = [op |-> "tool", request |-> request, ioOk |-> ioOk,
                    reply |-> IF CheckArgsParse(request.arguments) /\ ioOk
                              THEN ContentReply ELSE ErrorReply]
    /\ UNCHANGED <<syncVars, now, blocklistFile, call>>

\* case 'update_knowledge_base' while githubSync is null: the arguments are
\* parsed and the "not configured" error returned
ToolUpdateKnowledgeBase ==
    /\ mainPc = "serving"
    /\ ~githubSync
    /\ \E request \in UpdateRequests :
          probe' = [op |-> "tool", request |-> request, ioOk |-> TRUE, reply |-> ErrorReply]
    /\ UNCHANGED <<syncVars, now, blocklistFile, call>>

NextTools ==
    \/ ToolSearch
    \/ ToolPlain
    \/ ToolAddBlocklistEntry
    \/ ToolCheckBlocklist
    \/ ToolUpdateKnowledgeBase

SpecTools == ServingWithoutToken /\ [][NextTools]_vars

-----------------------------------------------------------------------------
\* saveConfig step by step, the process being killed at any point

\* the configurations saved
SavedConfigs ==
    {DefaultConfig, ConfigWithRepo, ConfigRepoRemoved, ConfigWithInterval(MaxIntervalMinutes + 1)}

InitSave ==
    /\ documents = <<>>
    /\ githubSync = FALSE
    /\ syncInterval = 0
    /\ mainPc = "start"
    /\ configFile \in {MissingFile} \cup ConfigFiles
    /\ pass = [p \in Passes |-> IdlePass]
    /\ started = 0
    /\ faults = 0
    /\ now = 0
    /\ EmptyLedgerVars

\* saveConfig -> writeJSON -> fs.writeFile opens config.json for writing:
\* the file is truncated, and holds a beginning of the new text while the
\* text is being written
SaveConfigOpens ==
    /\ probe.op \in {"none", "loadConfig"}
    /\ \E config \in SavedConfigs :
          probe' = [op |-> "saveConfig", pc |-> "writing", old |-> configFile,
                    new |-> FileOf(config)]
    /\ configFile' = UnparseableFile
    /\ UNCHANGED <<documents, githubSync, syncInterval, mainPc, pass, started, faults, now,
                   blocklistFile, call>>

\* fs.writeFile has written the whole text and resolves
SaveConfigReturns ==
    /\ probe.op = "saveConfig"
    /\ probe.pc = "writing"
    /\ configFile' = probe.new
    /\ probe' = [probe EXCEPT !.pc = "returned"]
    /\ UNCHANGED <<documents, githubSync, syncInterval, mainPc, pass, started, faults, now,
                   blocklistFile, call>>

\* the process is killed while the text is being written
SaveConfigInterrupted ==
    /\ probe.op = "saveConfig"
    /\ probe.pc = "writing"
    /\ probe' = [probe EXCEPT !.pc = "interrupted"]
    /\ UNCHANGED <<syncVars, now, blocklistFile, call>>

\* a later loadConfig, in the same process or the next
LoadConfigAfterSave ==
    /\ probe.op = "saveConfig"
    /\ probe.pc \in {"returned", "interrupted"}
    /\ probe' = [op |-> "loadConfig", old |-> probe.old, new |-> probe.new,
                 read |-> configFile, result |-> loadConfig(configFile)]
    /\ UNCHANGED <<syncVars, now, blocklistFile, call>>

NextSave ==
    \/ SaveConfigOpens
    \/ SaveConfigReturns
    \/ SaveConfigInterrupted
    \/ LoadConfigAfterSave

SpecSave == InitSave /\ [][NextSave]_vars

-----------------------------------------------------------------------------
\* the server with a config.json whose interval the user sets to any number

InitTimer ==
    /\ documents = <<>>
    /\ githubSync = FALSE
    /\ syncInterval = 0
    /\ mainPc = "start"
    /\ configFile \in {MissingFile} \cup IntervalFiles
    /\ pass = [p \in Passes |-> IdlePass]
    /\ started = 0
    /\ faults = 0
    /\ now = 0
    /\ EmptyLedgerVars

\* the user edits the interval in config.json, or leaves the file
\* unparseable, while a loadConfig is under way
EditInterval ==
    /\ mainPc = "loadConfig" \/ \E p \in Passes : pass[p].pc = "loadConfig"
    /\ configFile' \in (IntervalFiles \cup {UnparseableFile}) \ {configFile}
    /\ UNCHANGED <<documents, githubSync, syncInterval, mainPc, pass, started, faults, now,
                   blocklistFile, call, probe>>

NextTimer ==
    \/ MainStart
    \/ MainSetupPeriodicSync
    \/ TimerTick
    \/ UpdateKnowledgeBase
    \/ \E p \in Passes : SyncLoadConfig(p)
    \/ \E p \in Passes : SyncDiscover(p)
    \/ \E p \in Passes : SyncFetch(p)
    \/ EditInterval
    \/ Shutdown

SpecTimer == InitTimer /\ [][NextTimer]_vars

-----------------------------------------------------------------------------
\* the repositories one call of syncKnowledgeBase fetches, for any flags and
\* any account, the provider answering every call

\* what a repository of the account holds at the path .claude
ClaudeKinds == {"none", "dir", "file"}

\* the accounts: the repositories repos.listForUser returns, each with what
\* it holds at .claude
Accounts ==
    {<<[repo |-> userRepo1, claude |-> k1], [repo |-> userRepo2, claude |-> k2]>> :
        k1 \in ClaudeKinds, k2 \in ClaudeKinds}

\* repos.getContent({owner, repo, path: '.claude'}) resolves for a directory
\* (with its listing) and for a file (with its content), and rejects with
\* 404 when there is nothing at the path
getContentResolves(kind) == kind \in {"dir", "file"}

\* discoverUserRepos on an account: the repositories for which
\* hasCludeDirectory returned true, in the order listed
DiscoveredIn(account) ==
    LET kept == SelectSeq2(account,
                   {i \in 1..Len(account) : getContentResolves(account[i].claude)})
    IN  [i \in 1..Len(kept) |-> kept[i].repo]

PlanConfigs ==
    {[repositories |-> reps,
      sync |-> [enabled |-> TRUE, intervalMinutes |-> 30, autoDiscoverUserRepos |-> a,
                includeOfficialMCPRepos |-> o, includeCommunityRepos |-> c]] :
        reps \in {<<>>, ConfigWithRepo.repositories},
        a \in BOOLEAN, o \in BOOLEAN, c \in BOOLEAN}

InitPlan ==
    /\ documents = <<>>
    /\ githubSync = TRUE
    /\ syncInterval = 0
    /\ mainPc = "serving"
    /\ configFile \in {FileOf(config) : config \in PlanConfigs}
    /\ pass = [p \in Passes |-> IdlePass]
    /\ started = 0
    /\ faults = 0
    /\ now = 0
    /\ blocklistFile = DefaultBlocklist(0)
    /\ call = [c \in Calls |-> IdleCall]
    /\ probe \in {[op |-> "syncKnowledgeBase", pc |-> "loadConfig", account |-> account] :
                     account \in Accounts}

\* syncKnowledgeBase up to the end of discovery
PlanDiscover ==
    /\ probe.op = "syncKnowledgeBase"
    /\ probe.pc = "loadConfig"
    /\ \E r \in {loadConfig(configFile)} :
          /\ ~r.threw
          /\ probe' = [op |-> "syncKnowledgeBase", pc |-> "fetch", account |-> probe.account,
                       config |-> r.config,
                       userRepos |-> IF r.config.sync.autoDiscoverUserRepos
                                     THEN DiscoveredIn(probe.account) ELSE <<>>]
    /\ UNCHANGED <<syncVars, now, blocklistFile, call>>

\* the rest of syncKnowledgeBase: the repositories it calls
\* fetchFilesFromRepo for, in order
PlanFetch ==
    /\ probe.op = "syncKnowledgeBase"
    /\ probe.pc = "fetch"
    /\ \E plan \in {Plan(probe.config, probe.userRepos)} :
          probe' = [op |-> "syncKnowledgeBase", pc |-> "returned", account |-> probe.account,
                    config |-> probe.config,
                    fetched |-> [i \in 1..Len(plan) |->
                                    [owner |-> plan[i].owner, repo |-> plan[i].repo]]]
    /\ UNCHANGED <<syncVars, now, blocklistFile, call>>

NextPlan ==
    \/ PlanDiscover
    \/ PlanFetch

SpecPlan == InitPlan /\ [][NextPlan]_vars

-----------------------------------------------------------------------------
\* the update_knowledge_base tool, one request at a time, with what the pass
\* of each request indexed and what the request was answered

\* a configuration that indexes files of two types from two repositories
ConfigTwoTypes ==
    [repositories |-> <<Descriptor(userRepo1, Main, <<pat_claude_md>>, <<>>, TRUE),
                        Descriptor(userRepo3, Main, <<pat_star_md, pat_star_txt>>, <<>>, TRUE)>>,
     sync |-> [enabled |-> TRUE, intervalMinutes |-> 5, autoDiscoverUserRepos |-> FALSE,
               includeOfficialMCPRepos |-> FALSE, includeCommunityRepos |-> FALSE]]

\* the configurations the user goes through: each one loads and has a
\* repository to fetch
StatsFiles == {FileOf(ConfigTwoTypes), FileOf(ConfigWithRepo), FileOf(ConfigRepoRemoved)}

NoRequest == [op |-> "update_knowledge_base", pc |-> "none"]

\* the server connected with GitHub integration, nothing indexed yet
InitStats ==
    /\ documents = <<>>
    /\ githubSync = TRUE
    /\ syncInterval = 0
    /\ mainPc = "serving"
    /\ configFile \in StatsFiles
    /\ pass = [p \in Passes |-> IdlePass]
    /\ started = 0
    /\ faults = 0
    /\ now = 0
    /\ blocklistFile = DefaultBlocklist(0)
    /\ call = [c \in Calls |-> IdleCall]
    /\ probe = NoRequest

\* case 'update_knowledge_base' up to `await syncKnowledgeBase(args.force)`
StatsUpdate ==
    /\ mainPc = "serving"
    /\ githubSync
    /\ probe.pc \in {"none", "replied"}
    /\ \E force \in BOOLEAN :
          /\ BeginSync(force, "callback")
          /\ probe' = [op |-> "update_knowledge_base", pc |-> "awaiting", force |-> force,
                       slot |-> FreeSlot, indexed |-> {}, touched |-> {},
                       totalDocuments |-> 0, repositories |-> 0]
    /\ UNCHANGED <<documents, githubSync, syncInterval, mainPc, configFile, faults, now,
                   blocklistFile, call>>

\* the pass of the request goes on by one fetchFilesFromRepo; when it
\* returns, the handler calls getStats and answers
StatsFetch(p) ==
    /\ pass[p].pc = "fetch"
    /\ probe.pc = "awaiting"
    /\ probe.slot = p
    /\ \E job \in {Planned(p)[pass[p].next]} :
       \E out \in FetchOutcomes(job.owner, job.repo) :
          /\ faults + FaultsIn(out) <= MaxFaults
          /\ faults' = faults + FaultsIn(out)
          /\ FetchStep(p, job, out)
          /\ \E r \in {fetchFilesFromRepo(job.owner, job.repo, job.branch,
                                           job.includePatterns, job.excludePatterns, out, now)} :
             \E stats \in {getStats(documents')} :
                probe' = [probe EXCEPT
                            !.indexed = @ \cup Ids(r.documents),
                            !.touched = @ \cup {[owner |-> job.owner, repo |-> job.repo]},
                            !.pc = IF pass'[p] = IdlePass THEN "replied" ELSE @,
                            !.totalDocuments =
                                IF pass'[p] = IdlePass THEN stats.totalDocuments ELSE @,
                            !.repositories =
                                IF pass'[p] = IdlePass
                                THEN Cardinality(stats.repositories) ELSE @]

\* the user edits the repositories of config.json while a loadConfig is
\* under way
EditRepositories ==
    /\ \E p \in Passes : pass[p].pc = "loadConfig"
    /\ configFile' \in StatsFiles \ {configFile}
    /\ UNCHANGED <<documents, githubSync, syncInterval, mainPc, pass, started, faults, now,
                   blocklistFile, call, probe>>

NextStats ==
    \/ StatsUpdate
    \/ \E p \in Passes : SyncLoadConfig(p)
    \/ \E p \in Passes : StatsFetch(p)
    \/ EditRepositories

SpecStats == InitStats /\ [][NextStats]_vars

-----------------------------------------------------------------------------
\* a pass over two descriptors of one repository, each with its branch, the
\* index and the cache being empty before

b_m == <<"m">>
b_m_a == <<"m", "/", "a">>
Branches == {Main, b_m, b_m_a}

\* a descriptor of u/r3 for a branch, and the one file of that branch
BranchJobs ==
    {[branch |-> b, file |-> Blob(path, sha, 3)] :
        b \in Branches, path \in {p_a_b_md, p_b_md, p_readme_md}, sha \in {"s1"}}

\* the same with another content
WithContent(job, sha) == [job EXCEPT !.file = Blob(job.file.path, sha, 3)]

\* what the provider and the file system answer for a branch
BranchOutcomes(job) ==
    {[mkdirOk |-> TRUE, treeOk |-> TRUE, tree |-> <<job.file>>, failBlobs |-> fb,
      failWrites |-> fw] :
        fb \in SUBSET {job.file.sha}, fw \in SUBSET {job.file.path}}

InitBranches ==
    /\ documents = <<>>
    /\ githubSync = TRUE
    /\ syncInterval = 0
    /\ mainPc = "serving"
    /\ configFile = FileOf(ConfigWithRepo)
    /\ pass = [p \in Passes |-> IdlePass]
    /\ started = 0
    /\ faults = 0
    /\ now = 0
    /\ blocklistFile = DefaultBlocklist(0)
    /\ call = [c \in Calls |-> IdleCall]
    /\ probe \in {[op |-> "syncKnowledgeBase", jobs |-> <<first, WithContent(second, "s3")>>,
                    next |-> 1, built |-> <<>>, cache |-> {}, failedWrites |-> FALSE] :
                     first \in BranchJobs, second \in BranchJobs}

\* the loop of syncKnowledgeBase over config.repositories, one descriptor on:
\* fetchFilesFromRepo, which writes the cache, then addDocuments
BranchFetch ==
    /\ probe.op = "syncKnowledgeBase"
    /\ probe.next <= Len(probe.jobs)
    /\ \E job \in {probe.jobs[probe.next]} :
       \E out \in BranchOutcomes(job) :
       \E r \in {fetchFilesFromRepo(userRepo3.owner, userRepo3.repo, job.branch,
                                     <<pat_star_md, pat_any_md>>, <<>>, out, now)} :
          /\ documents' = addDocuments(documents, r.documents)
          /\ probe' = [probe EXCEPT
                         !.next = @ + 1,
                         !.built = @ \o r.documents,
                         !.failedWrites = @ \/ out.failWrites # {},
                         !.cache = CacheAfterFetch(@, userRepo3.owner, userRepo3.repo,
                                                   <<pat_star_md, pat_any_md>>, <<>>, out)]
    /\ UNCHANGED <<githubSync, syncInterval, mainPc, configFile, pass, started, faults, now,
                   blocklistFile, call>>

NextBranches == BranchFetch

SpecBranches == InitBranches /\ [][NextBranches]_vars

-----------------------------------------------------------------------------
\* the query operations, on an index and a ledger of any content

\* this.documents after search, getStats, listRepositories or getDocument:
\* each reads this.documents.values() or get(id), and none calls set,
\* delete or clear, or writes to a stored document
DocumentsAfterQuery(docs) == docs

\* a variant of isBlocked that stamps the ledger it has read
FileAfterIsBlocked_stamped(file, time) == [file EXCEPT !.lastUpdated = time]

\* blocklist.json after isBlocked: it calls loadBlocklist, which reads the
\* file, and never saveBlocklist
FileAfterIsBlocked(file, time) == file

\* the ids asked of getDocument: those of the documents, and one of none
QueryIds == Ids(documents) \cup {<<"x">>}

InitQueries ==
    /\ documents \in {addDocuments(<<>>, batch) : batch \in Batches}
    /\ githubSync = FALSE
    /\ syncInterval = 0
    /\ mainPc = "serving"
    /\ configFile = FileOf(DefaultConfig)
    /\ pass = [p \in Passes |-> IdlePass]
    /\ started = 0
    /\ faults = 0
    /\ now = 0
    /\ call = [c \in Calls |-> IdleCall]
    /\ \E entries \in LedgersUpTo(1) :
          blocklistFile = [version |-> "1.0.0", lastUpdated |-> 0, entries |-> entries]
    /\ probe = NoProbe

\* searchEngine.search(query, maxResults)
QuerySearch ==
    /\ \E query \in {<<>>, <<"f", "o", "o">>, <<"b">>} : \E maxResults \in {10} :
          probe' = [op |-> "search", hits |-> search(documents, query, maxResults)]
    /\ documents' = DocumentsAfterQuery(documents)
    /\ UNCHANGED <<githubSync, syncInterval, mainPc, configFile, pass, started, faults, now,
                   blocklistFile, call>>

\* searchEngine.getStats()
QueryGetStats ==
    /\ probe' = [op |-> "getStats", stats |-> getStats(documents)]
    /\ documents' = DocumentsAfterQuery(documents)
    /\ UNCHANGED <<githubSync, syncInterval, mainPc, configFile, pass, started, faults, now,
                   blocklistFile, call>>

\* searchEngine.listRepositories()
QueryListRepositories ==
    /\ probe' = [op |-> "listRepositories", repositories |-> listRepositories(documents)]
    /\ documents' = DocumentsAfterQuery(documents)
    /\ UNCHANGED <<githubSync, syncInterval, mainPc, configFile, pass, started, faults, now,
                   blocklistFile, call>>

\* searchEngine.getDocument(id)
QueryGetDocument ==
    /\ \E id \in QueryIds :
          probe' = [op |-> "getDocument",
                    document |-> IF id \in Ids(documents)
                                 THEN Given(getDocument(documents, id))
                                 ELSE Undefined]
    /\ documents' = DocumentsAfterQuery(documents)
    /\ UNCHANGED <<githubSync, syncInterval, mainPc, configFile, pass, started, faults, now,
                   blocklistFile, call>>

\* storage.isBlocked(serverName, pattern)
QueryIsBlocked ==
    /\ \E serverName \in ServerNameArgs : \E pattern \in {Undefined, Given(pat_star_md)} :
       \E loaded \in {loadBlocklist(blocklistFile)} :
          probe' = [op |-> "isBlocked",
                    reply |-> isBlocked(loaded.blocklist, serverName, pattern)]
    /\ blocklistFile' = FileAfterIsBlocked(blocklistFile, now)
    /\ UNCHANGED <<syncVars, now, call>>

NextQueries ==
    \/ QuerySearch
    \/ QueryGetStats
    \/ QueryListRepositories
    \/ QueryGetDocument
    \/ QueryIsBlocked
    \/ Tick

SpecQueries == InitQueries /\ [][NextQueries]_vars

-----------------------------------------------------------------------------
\* the server started while the content provider is unavailable: there is
\* no token, or every call to the provider fails

NextOutage ==
    \/ MainStart
    \/ MainSetupPeriodicSync
    \/ TimerTick
    \/ UpdateKnowledgeBase
    \/ \E p \in Passes : SyncLoadConfig(p)
    \/ \E p \in Passes : OutageDiscover(p)
    \/ \E p \in Passes : OutageFetch(p)
    \/ ToolSearch
    \/ ToolPlain
    \/ ToolCheckBlocklist

SpecOutage == Init /\ [][NextOutage]_vars

-----------------------------------------------------------------------------
(* Properties of the sync orchestrator.                                    *)

\* the repositories an invocation with this plan fetches
ReposOf(plan) == {[owner |-> plan[i].owner, repo |-> plan[i].repo] : i \in 1..Len(plan)}

\* the repository a document was fetched from
RepoOfDoc(doc) == [owner |-> doc.repoOwner, repo |-> doc.repoName]

\* the step taken ends the invocation in slot p while the process lives on
Ends(p) == InFlight(p) /\ pass'[p] = IdlePass /\ mainPc' # "exited"

\* C1: at most one invocation of syncKnowledgeBase is in flight at any time:
\* a timer tick or an update_knowledge_base request that arrives during a
\* pass starts no second, concurrent pass.
C1_SingleFlight == Cardinality({p \in Passes : InFlight(p)}) <= 1

\* C2: a forced pass that is called on a non-empty index and stays in flight
\* after it has loaded the configuration never leaves an empty index behind
\* for a search to read while it is in flight.
C2_ForcedResyncNeverShowsEmptyIndex ==
    [][\A p \in Passes :
          (/\ pass[p].pc = "loadConfig"
           /\ pass[p].force
           /\ documents # <<>>
           /\ pass'[p].pc \in {"discover", "fetch"})
          => documents' # <<>>]_vars

\* C3: whatever happens while one repository is fetched, the pass goes on to
\* the next repository of its plan, and it ends only after the last one.
C3_RepoFailureIsolated ==
    [][\A p \in Passes :
          (pass[p].pc = "fetch" /\ pass'[p] # pass[p] /\ mainPc' # "exited")
          => IF pass[p].next < Len(Planned(p))
             THEN /\ pass'[p].pc = "fetch"
                  /\ pass'[p].next = pass[p].next + 1
                  /\ pass'[p].config = pass[p].config
                  /\ pass'[p].userRepos = pass[p].userRepos
             ELSE /\ pass'[p] = IdlePass
                  /\ pass[p].origin = "main" => mainPc' = "loadConfig"]_vars

\* a pass has met a failure for one repository of its plan and has gone on:
\* the index holds a document of a repository fetched after the failed one
C3_Witness ==
    \E p \in Passes : \E k \in pass[p].failedJobs : \E j \in (k + 1)..(pass[p].next - 1) :
       \E i \in 1..Len(documents) :
          RepoOfDoc(documents[i]) = [owner |-> Planned(p)[j].owner, repo |-> Planned(p)[j].repo]

\* C5: a failure of user-repository discovery yields the empty set of user
\* repositories, and the pass goes on to the official, community and
\* configured repositories; it ends after discovery only when there are none.
C5_DiscoveryFailureContinues ==
    [][\A p \in Passes :
          (pass[p].pc = "discover" /\ pass'[p] # pass[p] /\ mainPc' # "exited")
          => /\ JobsAfterDiscovery(pass[p].config) # <<>>
                => /\ pass'[p].pc = "fetch"
                   /\ pass'[p].next = 1
                   /\ pass'[p].config = pass[p].config
             /\ pass'[p].discovery = "failed" => pass'[p].userRepos = <<>>
             /\ pass'[p] = IdlePass /\ pass[p].origin = "main" => mainPc' = "loadConfig"]_vars

\* discovery has failed in a pass, and the pass has since fetched an
\* official repository
C5_Witness ==
    \E p \in Passes :
       /\ pass[p].discovery = "failed"
       /\ pass[p].userRepos = <<>>
       /\ pass[p].pc = "fetch"
       /\ pass[p].next > 1

\* C7: when a pass called with force = false ends, every document id that
\* was in the index when it was called is still in the index.
C7_NonForcedPassKeepsIds ==
    [][\A p \in Passes :
          (Ends(p) /\ ~pass[p].force) => pass[p].startIds \subseteq Ids(documents')]_vars

\* C8: when a pass called with force = true returns, every document in the
\* index belongs to a repository of the configuration the pass has read: no
\* document of a repository removed from the configuration is left.
C8_ForcedPassDropsRemovedRepos ==
    [][\A p \in Passes :
          (Ends(p) /\ pass[p].force /\ pass[p].pc = "fetch")
          => \A i \in 1..Len(documents') :
                RepoOfDoc(documents'[i]) \in ReposOf(Planned(p))]_vars

-----------------------------------------------------------------------------
(* Properties of the fetcher and of the search engine.                     *)

\* the paths of a sequence of tree items
PathsOf(files) == [i \in 1..Len(files) |-> files[i].path]

\* the eligible files of a tree: the blobs whose path matches an include
\* pattern and no exclude pattern, by the regular expressions themselves
Eligible(tree, includePatterns, excludePatterns) ==
    SelectSeq2(tree,
       {i \in 1..Len(tree) :
           /\ tree[i].type = "blob"
           /\ \E k \in 1..Len(includePatterns) :
                 MatchPatternOf(tree[i].path, includePatterns[k]) = "true"
           /\ \A k \in 1..Len(excludePatterns) :
                 MatchPatternOf(tree[i].path, excludePatterns[k]) # "true"})

\* the call under way got its tree and no pattern of it is malformed
RepoListed ==
    /\ probe.op = "fetchFilesFromRepo"
    /\ probe.returned
    /\ probe.out.mkdirOk
    /\ probe.out.treeOk
    /\ \A k \in 1..Len(probe.includePatterns) : ~RegexSyntaxError(RegexSource(probe.includePatterns[k]))
    /\ \A k \in 1..Len(probe.excludePatterns) : ~RegexSyntaxError(RegexSource(probe.excludePatterns[k]))

\* the eligible files of the call under way, and those whose getBlob failed
EligibleNow == Eligible(probe.out.tree, probe.includePatterns, probe.excludePatterns)
FailedNow == {i \in 1..Len(EligibleNow) : EligibleNow[i].sha \in probe.out.failBlobs}

\* C4: the documents returned for a repository are the eligible files whose
\* content was fetched, in tree order, each with the content fetched; a file
\* whose fetch fails is left out and the files after it are still fetched.
C4_FileFailureSkipsOnlyThatFile ==
    RepoListed =>
       /\ ~probe.result.threw
       /\ [i \in 1..Len(probe.result.documents) |-> probe.result.documents[i].filePath]
             = PathsOf(SelectSeq2(EligibleNow, (1..Len(EligibleNow)) \ FailedNow))
       /\ \A i \in 1..Len(probe.result.documents) :
             /\ probe.result.documents[i].id
                   = Join2(Join2(Join2(probe.owner, probe.repo), Main),
                           probe.result.documents[i].filePath)
             /\ probe.result.documents[i].content
                   = BlobContent(probe.result.documents[i].metadata.hash)

\* a call has returned in which the fetch of an eligible file failed and an
\* eligible file after it was fetched
C4_Witness ==
    /\ RepoListed
    /\ \E i \in FailedNow : \E j \in (1..Len(EligibleNow)) \ FailedNow :
          /\ i < j
          /\ \E k \in 1..Len(probe.result.documents) :
                probe.result.documents[k].filePath = EligibleNow[j].path

\* the last document of a batch with a given id
LatestIn(batch, id) ==
    batch[CHOOSE i \in 1..Len(batch) :
             /\ batch[i].id = id
             /\ \A j \in (i + 1)..Len(batch) : batch[j].id # id]

\* C6: after addDocuments(batch), every id is stored once; an id that was
\* stored before counts once as before, each new id adds one to the count;
\* the document stored under an id of the batch is the latest one added with
\* that id, whole; every other document is as it was.
C6_AddDocumentsUpserts ==
    probe.op = "addDocuments" =>
       /\ Cardinality(Ids(documents)) = Len(documents)
       /\ Len(documents) = Len(probe.before) + Cardinality(Ids(probe.batch) \ Ids(probe.before))
       /\ \A id \in Ids(probe.batch) : getDocument(documents, id) = LatestIn(probe.batch, id)
       /\ \A id \in Ids(probe.before) \ Ids(probe.batch) :
             getDocument(documents, id) = getDocument(probe.before, id)

\* a document was added under an id already stored with another content
C6_Witness ==
    /\ probe.op = "addDocuments"
    /\ \E i \in 1..Len(probe.batch) :
          /\ probe.batch[i].id \in Ids(probe.before)
          /\ getDocument(probe.before, probe.batch[i].id).content # probe.batch[i].content
          /\ getDocument(documents, probe.batch[i].id) = probe.batch[i]
          /\ Len(documents) = Len(probe.before)

-----------------------------------------------------------------------------
(* Properties of the blocklist ledger.                                     *)

IsPrefix(s, t) == Len(s) <= Len(t) /\ SubSeq(t, 1, Len(s)) = s

\* the entry an invocation that has loaded the list is about to persist
FullEntry(c) == call[c].blocklist.entries[Len(call[c].blocklist.entries)]

\* the hashed fields of a stored entry: all but the hash
HashedFields(e) == [key \in (DOMAIN e) \ {"hash"} |-> e[key]]

\* C9: when a call of addBlocklistEntry returns, the entries that were in
\* the file when it was called are a prefix of the entries in the file, the
\* entry it added is the last one, and lastUpdated is not older than the call.
C9_LedgerAppendOnly ==
    [][\A c \in Calls :
          (call[c].pc = "save" /\ call'[c].pc = "idle")
          => /\ IsPrefix(call[c].before, blocklistFile'.entries)
             /\ Len(blocklistFile'.entries) > Len(call[c].before)
             /\ blocklistFile'.entries[Len(blocklistFile'.entries)] = FullEntry(c)
             /\ blocklistFile'.lastUpdated >= call[c].calledAt]_vars

\* C10: two invocations that were handed the same fields, in whatever
\* order and over whatever ledger, compute the same hash; and the hash of an
\* entry in the file is the hash any invocation computes for its fields.
C10_HashIsFunctionOfFields ==
    /\ \A c \in Calls : \A d \in Calls :
          (/\ call[c].pc = "save"
           /\ call[d].pc = "save"
           /\ Stored(call[c].entry) = Stored(call[d].entry))
          => FullEntry(c).hash = FullEntry(d).hash
    /\ \A c \in Calls : \A i \in 1..Len(blocklistFile.entries) :
          (call[c].pc = "save" /\ Stored(call[c].entry) = HashedFields(blocklistFile.entries[i]))
          => FullEntry(c).hash = blocklistFile.entries[i].hash

\* two invocations were handed the same fields in different orders, have
\* read different ledgers, and have each computed a hash
C10_Witness ==
    \E c \in Calls : \E d \in Calls :
       /\ call[c].pc = "save"
       /\ call[d].pc = "save"
       /\ call[c].entry # call[d].entry
       /\ Stored(call[c].entry) = Stored(call[d].entry)
       /\ Len(call[c].blocklist.entries) # Len(call[d].blocklist.entries)

\* the names of the fields in a hash input, in its order
NamesIn(text) == [i \in 1..Len(text) |-> text[i][1]]

\* the names of the fields of an object that have a value
ValuedNames(object) == {object[i][1] : i \in {j \in 1..Len(object) : Len(object[j]) = 2}}

\* the position of a name in ascending order of UTF-16 code units
Rank(name) == CHOOSE i \in 1..Len(SortedNames) : SortedNames[i] = name

\* C11: the hash input of an entry holds every field of the entry that has
\* a value, and no hash, under field names in ascending order; two entries
\* that differ in a field have different hash inputs.
C11_HashCoversEveryField ==
    (probe.op = "calculateHash" /\ probe.returned) =>
       /\ SeqToSet(NamesIn(probe.hashA[2])) = ValuedNames(probe.a)
       /\ "hash" \notin SeqToSet(NamesIn(probe.hashA[2]))
       /\ \A i \in 1..Len(probe.hashA[2]) : \A j \in 1..Len(probe.hashA[2]) :
             i < j => Rank(probe.hashA[2][i][1]) < Rank(probe.hashA[2][j][1])
       /\ \A i \in 1..Len(probe.a) : Len(probe.a[i]) = 2 => \E k \in 1..Len(probe.hashA[2]) : probe.hashA[2][k] = probe.a[i]
       /\ DifferAt(probe.a, probe.b) # {} => probe.hashA[2] # probe.hashB[2]
       /\ DifferAt(probe.a, probe.b) = {} => probe.hashA = probe.hashB

\* two entries that differ only in version, a field the handler never sets,
\* were hashed, the second supplied in another order
C11_Witness ==
    /\ probe.op = "calculateHash"
    /\ probe.returned
    /\ DifferAt(probe.a, probe.b) = {4}
    /\ probe.supplied # probe.b
    /\ probe.hashA # probe.hashB

\* the server names that have a server entry in a list of entries
NamesWithServerEntry(entries) ==
    {entries[i].serverName :
        i \in {j \in 1..Len(entries) :
                  entries[j].type = "server" /\ "serverName" \in DOMAIN entries[j]}}

\* C12: when addBlocklistEntry returns from appending a server entry for a
\* name, isBlocked on the file as it then stands reports that name blocked,
\* and reports no name blocked that has no server entry in the file.
C12_BlockedRightAfterAppend ==
    [][\A c \in Calls :
          (/\ call[c].pc = "save"
           /\ call'[c].pc = "idle"
           /\ FullEntry(c).type = "server")
          => /\ isBlocked(loadBlocklist(blocklistFile').blocklist,
                          Given(FullEntry(c).serverName), Undefined).blocked
             /\ \A y \in ServerNames \ NamesWithServerEntry(blocklistFile'.entries) :
                   ~isBlocked(loadBlocklist(blocklistFile').blocklist,
                              Given(y), Undefined).blocked]_vars

\* the positions of the entries that match the arguments of a check: a
\* server entry by its serverName, a file_pattern entry by its pattern
\* taken as a plain string
MatchingEntries(entries, serverName, pattern) ==
    {i \in 1..Len(entries) :
        \/ /\ serverName # Undefined
           /\ entries[i].type = "server"
           /\ "serverName" \in DOMAIN entries[i]
           /\ entries[i].serverName = serverName[1]
        \/ /\ pattern # Undefined
           /\ entries[i].type = "file_pattern"
           /\ "pattern" \in DOMAIN entries[i]
           /\ entries[i].pattern = pattern[1]}

\* C13: isBlocked reports blocked exactly when some entry of the ledger
\* matches its arguments, and then with the reason of the matching entry
\* that stands first in the ledger, whatever matches come after it.
C13_FirstMatchInLedgerOrder ==
    (probe.op = "check_blocklist" /\ probe.returned) =>
       \E hits \in {MatchingEntries(blocklistFile.entries, probe.serverName, probe.pattern)} :
          /\ probe.result.blocked = (hits # {})
          /\ hits # {} =>
                probe.result.reason =
                   Given(blocklistFile.entries[CHOOSE i \in hits : \A j \in hits : i <= j].reason)

\* C15: isBlocked does not report blocked when every entry that matches its
\* arguments has allowOverride set.
C15_OverriddenEntryDoesNotBlock ==
    (probe.op = "check_blocklist" /\ probe.returned) =>
       \E hits \in {MatchingEntries(blocklistFile.entries, probe.serverName, probe.pattern)} :
          (\A i \in hits : blocklistFile.entries[i].allowOverride) => ~probe.result.blocked

\* the names of a set, as a sequence
SetToNames(names) == SelectSeq2(SortedNames, {i \in 1..Len(SortedNames) : SortedNames[i] \in names})

\* the fields of a stored entry as an object to hash
ObjectOf(e) ==
    [i \in 1..Cardinality((DOMAIN e) \ {"hash"}) |->
        <<Sort(SetToNames((DOMAIN e) \ {"hash"}))[i],
          e[Sort(SetToNames((DOMAIN e) \ {"hash"}))[i]]>>]

\* the positions of the entries whose stored hash is not the hash of their
\* other fields
Mismatched(entries) ==
    {i \in 1..Len(entries) : entries[i].hash # calculateHash(ObjectOf(entries[i]))}

\* C16: a load of the ledger returns every entry of the file and warns
\* about exactly the entries whose stored hash is not the hash recomputed
\* from their other fields.
C16_LoadFlagsHashMismatch ==
    (probe.op = "check_blocklist" /\ probe.returned) =>
       /\ ~probe.loaded.threw
       /\ probe.loaded.blocklist.entries = blocklistFile.entries
       /\ SeqToSet(probe.loaded.warnings) = Mismatched(blocklistFile.entries)

\* the patterns of the file_pattern entries of a ledger
BlockedPatterns(entries) ==
    {entries[i].pattern :
        i \in {j \in 1..Len(entries) :
                  entries[j].type = "file_pattern" /\ "pattern" \in DOMAIN entries[j]}}

\* C14: no step of a sync pass adds to the index a document whose path
\* matches the pattern of a file_pattern entry of the ledger.
C14_BlockedPatternNotIndexed ==
    [][\A i \in 1..Len(documents') :
          documents'[i].id \notin Ids(documents)
          => \A pattern \in BlockedPatterns(blocklistFile.entries) :
                matchPattern(documents'[i].filePath, pattern) # "true"]_vars

RECURSIVE OccurrenceCount(_, _, _)
\* the number of occurrences of `part` in `text` from position i on that do
\* not overlap, counted from left to right
OccurrenceCount(text, part, i) ==
    IF i + Len(part) - 1 > Len(text) THEN 0
    ELSE IF OccursAt(text, part, i)
         THEN 1 + OccurrenceCount(text, part, i + (IF part = <<>> THEN 1 ELSE Len(part)))
         ELSE OccurrenceCount(text, part, i + 1)

\* the occurrence counts a reader may take the query to have in a content:
\* the count from left to right, or any count at all for the empty query
OccurrenceCounts(content, query) ==
    IF query = <<>> THEN 0..(Len(content) + 1)
    ELSE {OccurrenceCount(ToLowerCase(content), ToLowerCase(query), 1)}

\* C17: the score of every result of a search is min(occurrenceCount / 10,
\* 1.0), the occurrences of the query in the content being counted without
\* overlap and without regard to case (scores are in tenths).
C17_ScoreIsCappedOccurrenceCount ==
    probe.op = "search" =>
       \A k \in 1..Len(probe.results) :
          \E n \in OccurrenceCounts(probe.results[k].document.content, probe.query) :
             probe.results[k].score = IF n < 10 THEN n ELSE 10

\* C18: the score of every result of a search lies within [0, 1] (0 to 10
\* tenths), whatever the query and the contents.
C18_ScoreWithinUnitInterval ==
    probe.op = "search" =>
       \A k \in 1..Len(probe.results) :
          probe.results[k].score >= 0 /\ probe.results[k].score <= 10

\* the position of a document in the index
PositionOf(doc) == CHOOSE i \in 1..Len(documents) : documents[i].id = doc.id

\* C19: the results of a search are in order of non-increasing score, and
\* of two results of equal score the one whose document was inserted in the
\* index first comes first.
C19_SortedByScoreStable ==
    probe.op = "search" =>
       \A k \in 1..(Len(probe.results) - 1) :
          \/ probe.results[k].score > probe.results[k + 1].score
          \/ /\ probe.results[k].score = probe.results[k + 1].score
             /\ PositionOf(probe.results[k].document) <
                   PositionOf(probe.results[k + 1].document)

\* a search returned three results: the first has the greatest score and
\* was inserted last, the two others have equal scores
C19_Witness ==
    /\ probe.op = "search"
    /\ Len(probe.results) = 3
    /\ probe.results[1].score > probe.results[2].score
    /\ probe.results[2].score = probe.results[3].score
    /\ PositionOf(probe.results[1].document) = 3

\* the positions of the documents whose content includes the query, case
\* disregarded
Matching(query) ==
    {i \in 1..Len(documents) :
        Includes(ToLowerCase(documents[i].content), ToLowerCase(query))}

\* C20: a search over m matching documents returns min(maxResults, m)
\* results (maxResults is in tenths), and no matching document left out has
\* a greater score than a document returned.
C20_TruncatesAfterSorting ==
    probe.op = "search" =>
       /\ 10 * Len(probe.results) =
             (IF probe.maxResults < 10 * Cardinality(Matching(probe.query))
              THEN probe.maxResults ELSE 10 * Cardinality(Matching(probe.query)))
       /\ \A i \in Matching(probe.query) :
             (\A k \in 1..Len(probe.results) : probe.results[k].document.id # documents[i].id)
             => \A k \in 1..Len(probe.results) :
                   SearchResult(documents[i], ToLowerCase(probe.query)).score
                      <= probe.results[k].score

\* C21: the snippet of every result of a search is the content from 100
\* characters before the offset of the first occurrence of the query up to
\* 200 characters past the end of that occurrence, both ends clamped to the
\* content, between two ellipsis markers.
C21_SnippetSpansPastQuery ==
    probe.op = "search" =>
       \A k \in 1..Len(probe.results) :
          \E content \in {probe.results[k].document.content} :
          \E first \in {IndexOf(ToLowerCase(content), ToLowerCase(probe.query))} :
             probe.results[k].snippet =
                <<".", ".", ".">> \o
                SubSeq(content,
                       (IF first > 100 THEN first - 100 ELSE 0) + 1,
                       IF first + Len(probe.query) + 200 < Len(content)
                       THEN first + Len(probe.query) + 200 ELSE Len(content)) \o
                <<".", ".", ".">>

RECURSIVE GlobMatches(_, _, _, _)
\* whether the pattern from position i on matches the whole of the path
\* from position j on: "**" stands for any run of characters, "*" for any
\* run without "/", "?" for one character, any other character for itself
GlobMatches(pattern, i, path, j) ==
    IF i > Len(pattern) THEN j > Len(path)
    ELSE IF pattern[i] = "*" /\ i < Len(pattern) /\ pattern[i + 1] = "*"
         THEN \E k \in j..(Len(path) + 1) : GlobMatches(pattern, i + 2, path, k)
    ELSE IF pattern[i] = "*"
         THEN \E k \in j..(Len(path) + 1) :
                 /\ \A m \in j..(k - 1) : path[m] # "/"
                 /\ GlobMatches(pattern, i + 1, path, k)
    ELSE /\ j <= Len(path)
         /\ pattern[i] = "?" \/ pattern[i] = path[j]
         /\ GlobMatches(pattern, i + 1, path, j + 1)

\* whether a pattern has a "**"
HasDoubleStar(pattern) ==
    \E i \in 1..(Len(pattern) - 1) : pattern[i] = "*" /\ pattern[i + 1] = "*"

\* C22: for a pattern with "**", matchPattern answers true exactly for the
\* paths the pattern matches when "**" stands for any run of characters,
\* path separators included, over any number of directory levels.
C22_DoubleStarCrossesSeparators ==
    (probe.op = "matchPattern" /\ probe.returned /\ HasDoubleStar(probe.pattern)) =>
       (probe.result = "true") = GlobMatches(probe.pattern, 1, probe.filePath, 1)

\* a call of fetchFilesFromRepo with includePatterns ["*.md"] and no
\* excludePatterns has returned, every provider call having succeeded
StarMdFetched ==
    /\ probe.op = "fetchFilesFromRepo"
    /\ probe.returned
    /\ probe.includePatterns = <<pat_star_md>>
    /\ probe.excludePatterns = <<>>
    /\ probe.out.mkdirOk
    /\ probe.out.treeOk
    /\ probe.out.failBlobs = {}

\* C23: with includePatterns ["*.md"] and no excludePatterns, the documents
\* returned are those of the blobs of the tree whose path has no "/" and
\* ends in ".md"; on the tree [r.md, a/b.md, n.txt] that is r.md alone.
C23_SingleStarStaysInSegment ==
    StarMdFetched =>
       /\ [i \in 1..Len(probe.result.documents) |-> probe.result.documents[i].filePath]
             = PathsOf(SelectSeq2(probe.out.tree,
                  {i \in 1..Len(probe.out.tree) :
                      /\ probe.out.tree[i].type = "blob"
                      /\ \A m \in 1..Len(probe.out.tree[i].path) : probe.out.tree[i].path[m] # "/"
                      /\ Len(probe.out.tree[i].path) >= 3
                      /\ SubSeq(probe.out.tree[i].path, Len(probe.out.tree[i].path) - 2,
                                Len(probe.out.tree[i].path)) = <<Dot, "m", "d">>}))
       /\ PathsOf(probe.out.tree) = <<p_readme_md, p_a_b_md, p_notes_txt>>
             => Len(probe.result.documents) = 1 /\ probe.result.documents[1].filePath = p_readme_md

\* the call was made on the tree [r.md, a/b.md, n.txt] and returned one
\* document
C23_Witness ==
    /\ StarMdFetched
    /\ PathsOf(probe.out.tree) = <<p_readme_md, p_a_b_md, p_notes_txt>>
    /\ Len(probe.result.documents) = 1

\* a call of fetchFilesFromRepo has returned, every provider call having
\* succeeded
AllFetched ==
    /\ probe.op = "fetchFilesFromRepo"
    /\ probe.returned
    /\ probe.out.mkdirOk
    /\ probe.out.treeOk
    /\ probe.out.failBlobs = {}

\* C24: whatever the include and exclude patterns, the documents returned
\* for a repository are those of the blobs that match an include pattern and
\* no exclude pattern, and none when there is no include pattern.
C24_EligibleIffIncludedNotExcluded ==
    AllFetched =>
       /\ [i \in 1..Len(probe.result.documents) |-> probe.result.documents[i].filePath]
             = PathsOf(EligibleNow)
       /\ probe.includePatterns = <<>> => probe.result.documents = <<>>

\* the patterns of a list from which a regular expression can be built
WellFormed(patterns) ==
    SelectSeq2(patterns, {k \in 1..Len(patterns) : ~RegexSyntaxError(RegexSource(patterns[k]))})

\* C25: when a pattern of a call is malformed, the call does not throw, and
\* it returns the documents of the blobs eligible under the well-formed
\* patterns alone.
C25_MalformedPatternFailsClosed ==
    (/\ AllFetched
     /\ \/ WellFormed(probe.includePatterns) # probe.includePatterns
        \/ WellFormed(probe.excludePatterns) # probe.excludePatterns) =>
       /\ ~probe.result.threw
       /\ [i \in 1..Len(probe.result.documents) |-> probe.result.documents[i].filePath]
             = PathsOf(Eligible(probe.out.tree, WellFormed(probe.includePatterns),
                                WellFormed(probe.excludePatterns)))

\* whether the arguments of a request meet the constraints stated for its
\* operation: maxResults a whole number from 1 to 50, the kind of an entry
\* one of the two kinds and the name or pattern it is about given, optional
\* strings for a check, a boolean for force
MeetsConstraints(request) ==
    CASE request.name = "search_knowledge_base" ->
            /\ request.arguments.query.t = "string"
            /\ \/ request.arguments.maxResults.t = "undefined"
               \/ /\ request.arguments.maxResults.t = "number"
                  /\ request.arguments.maxResults.v % 10 = 0
                  /\ request.arguments.maxResults.v \div 10 \in 1..50
      [] request.name = "add_blocklist_entry" ->
            /\ request.arguments.reason.t = "string"
            /\ \/ /\ request.arguments.type = Str("server")
                  /\ request.arguments.serverName.t = "string"
               \/ /\ request.arguments.type = Str("file_pattern")
                  /\ request.arguments.pattern.t = "string"
      [] request.name = "check_blocklist" ->
            /\ request.arguments.serverName.t \in {"undefined", "string"}
            /\ request.arguments.pattern.t \in {"undefined", "string"}
      [] request.name = "update_knowledge_base" ->
            request.arguments.force.t \in {"undefined", "boolean"}
      [] request.name \in {"list_repositories", "get_mcp_specification"} -> TRUE
      [] OTHER -> FALSE

\* C26: no tool call raises into the transport, and a call of an unknown
\* tool, with arguments that do not meet the constraints of its operation,
\* or in which a read of the storage fails, is answered with isError.
C26_FailuresAreFlagged ==
    probe.op = "tool" =>
       /\ ~probe.reply.raised
       /\ (~MeetsConstraints(probe.request) \/ ~probe.ioOk) => probe.reply.isError

\* the requests whose arguments parse and whose storage reads succeed
Served ==
    /\ probe.ioOk
    /\ \/ probe.request.name = "search_knowledge_base" /\ SearchArgsParse(probe.request.arguments)
       \/ probe.request.name = "check_blocklist" /\ CheckArgsParse(probe.request.arguments)
       \/ probe.request.name \in {"get_mcp_specification", "list_repositories"}

\* C27: while there is no token or every call to the provider fails, the
\* process does not exit, the index stays empty, and once main() has
\* connected the server the search, blocklist and specification requests
\* are answered with their content.
C27_OutageDegradesToEmptyIndex ==
    /\ mainPc # "exited"
    /\ documents = <<>>
    /\ probe.op = "tool" =>
          /\ mainPc = "serving"
          /\ ~probe.reply.raised
          /\ Served => ~probe.reply.isError

\* the server was started with a token, its initial sync has run against
\* the failing provider, and it has answered a search request
C27_Witness ==
    /\ githubSync
    /\ mainPc = "serving"
    /\ started > 0
    /\ \A p \in Passes : ~InFlight(p)
    /\ documents = <<>>
    /\ probe.op = "tool"
    /\ probe.request.name = "search_knowledge_base"
    /\ ~probe.reply.isError

\* C28: a load made after a save has returned or was interrupted reads the
\* file as it was before the save or as the save was to leave it: it
\* returns one of the two configurations.
C28_SaveIsAllOrNothing ==
    probe.op = "loadConfig" =>
       /\ probe.read \in {probe.old, probe.new}
       /\ probe.result \in {loadConfig(probe.old), loadConfig(probe.new)}

\* C29: an armed timer has an interval of 5 to 1440 minutes, whatever number
\* config.json holds.
C29_ArmedIntervalInRange ==
    syncInterval # 0 => syncInterval \in MinIntervalMinutes..MaxIntervalMinutes

\* the server is connected after its initial pass, config.json holds an
\* interval outside the range, and no timer is armed
C29_Witness ==
    /\ mainPc = "serving"
    /\ githubSync
    /\ started = 1
    /\ \A p \in Passes : ~InFlight(p)
    /\ configFile \in IntervalFiles
    /\ configFile.value.sync.intervalMinutes \notin MinIntervalMinutes..MaxIntervalMinutes
    /\ syncInterval = 0

\* C30: a timer is armed only when none is armed, the pass its callback
\* starts is not forced, and once the process has exited on a signal no
\* timer is armed and no pass starts.
C30_TimerOwnedAndCancellable ==
    [][/\ syncInterval' # 0 /\ syncInterval' # syncInterval => syncInterval = 0
       /\ \A p \in Passes :
             pass'[p].origin = "timer" /\ pass[p].origin # "timer"
                => syncInterval # 0 /\ ~pass'[p].force
       /\ mainPc' = "exited" => syncInterval' = 0 /\ \A p \in Passes : ~InFlight(p)'
       /\ mainPc = "exited" => mainPc' = "exited" /\ started' = started]_vars

\* a pass started by the timer and a forced pass started by the tool are
\* under way together
C30_Witness ==
    /\ syncInterval # 0
    /\ \E p, q \in Passes :
          /\ InFlight(p) /\ pass[p].origin = "timer" /\ ~pass[p].force
          /\ InFlight(q) /\ pass[q].origin = "callback" /\ pass[q].force

\* the repositories of the account that have a directory at .claude
WithMarkerDirectory(account) ==
    {account[i].repo : i \in {j \in 1..Len(account) : account[j].claude = "dir"}}

\* the union of the sources of a configuration
SourcesUnion(config, account) ==
    {[owner |-> d.owner, repo |-> d.repo] :
        d \in {e \in SeqToSet(config.repositories) : e.indexingEnabled}}
    \cup (IF config.sync.autoDiscoverUserRepos THEN WithMarkerDirectory(account) ELSE {})
    \cup (IF config.sync.includeOfficialMCPRepos THEN SeqToSet(getOfficialMCPRepos) ELSE {})
    \cup (IF config.sync.includeCommunityRepos THEN SeqToSet(getCommunityMCPRepos) ELSE {})

\* C31: the repositories a pass has fetched are those of the union of its
\* sources: the enabled descriptors, the repositories of the account that
\* have the marker directory when discovery is on, and the official and
\* community lists when their flags are on.
C31_FetchesExactlyTheSources ==
    probe.op = "syncKnowledgeBase" /\ probe.pc = "returned"
       => SeqToSet(probe.fetched) = SourcesUnion(probe.config, probe.account)

\* the repositories of the stored documents with the ids given
RepositoriesOf(docs, ids) ==
    {[owner |-> docs[i].repoOwner, repo |-> docs[i].repoName] :
        i \in {j \in 1..Len(docs) : docs[j].id \in ids}}

\* C32: the answer to update_knowledge_base counts the documents the pass
\* of the request indexed, and the repositories that pass touched: those it
\* fetched, or those it indexed a document of.
C32_ReplyCountsThePass ==
    probe.op = "update_knowledge_base" /\ probe.pc = "replied" =>
       /\ probe.totalDocuments = Cardinality(probe.indexed)
       /\ probe.repositories \in {Cardinality(probe.touched),
                                   Cardinality(RepositoriesOf(documents, probe.indexed))}

RECURSIVE SumOf(_, _)
\* the sum of the first n numbers of s
SumOf(s, n) == IF n = 0 THEN 0 ELSE SumOf(s, n - 1) + s[n]

\* the distinct (owner, name) pairs of the stored documents
StoredRepositories ==
    {[owner |-> documents[i].repoOwner, repo |-> documents[i].repoName] :
        i \in 1..Len(documents)}

\* C33: getStats and listRepositories agree with the stored documents:
\* totalDocuments is their number, the counts by file type sum to it,
\* listRepositories has one entry for each distinct (owner, name) stored and
\* no other, and its fileCount values sum to totalDocuments.
C33_StatsAgreeWithDocuments ==
    LET stats == getStats(documents)
        repos == listRepositories(documents)
    IN  /\ stats.totalDocuments = Cardinality(Ids(documents))
        /\ SumOf([i \in 1..Len(stats.fileTypes) |-> stats.fileTypes[i].count],
                    Len(stats.fileTypes))
              = stats.totalDocuments
        /\ {[owner |-> repos[i].owner, repo |-> repos[i].repo] : i \in 1..Len(repos)}
              = StoredRepositories
        /\ Len(repos) = Cardinality(StoredRepositories)
        /\ SumOf([i \in 1..Len(repos) |-> repos[i].fileCount], Len(repos)) = stats.totalDocuments

\* the index holds documents of two repositories of one owner, and
\* documents of two file types
C33_Witness ==
    /\ \E i, j \in 1..Len(documents) :
          /\ documents[i].repoOwner = documents[j].repoOwner
          /\ documents[i].repoName # documents[j].repoName
    /\ \E i, j \in 1..Len(documents) :
          documents[i].metadata.fileType # documents[j].metadata.fileType

\* C34: an entry is in the file once the call that added it has returned;
\* when a call of addBlocklistEntry returns, every entry that was in the
\* file is still in it, whatever calls overlapped.
C34_NoAcknowledgedEntryLost ==
    [][\A c \in Calls :
          (call[c].pc = "save" /\ call'[c].pc = "idle")
          => SeqToSet(blocklistFile.entries) \subseteq SeqToSet(blocklistFile'.entries)]_vars

\* the (owner, name, branch, path) of a document
TupleOf(doc) == <<doc.repoOwner, doc.repoName, doc.branch, doc.filePath>>

\* C35: every document a pass built has the id made of its own four
\* fields, two documents with different (owner, name, branch, path) have
\* different ids, and both are stored after the pass.
C35_IdIdentifiesOneTuple ==
    probe.op = "syncKnowledgeBase" /\ probe.next > Len(probe.jobs) =>
       \A i \in 1..Len(probe.built) :
          /\ probe.built[i].id
                = Join2(Join2(Join2(probe.built[i].repoOwner, probe.built[i].repoName),
                              probe.built[i].branch), probe.built[i].filePath)
          /\ \A j \in 1..Len(probe.built) :
                TupleOf(probe.built[i]) # TupleOf(probe.built[j])
                   => /\ probe.built[i].id # probe.built[j].id
                      /\ \E k \in 1..Len(documents) : documents[k] = probe.built[i]

\* C36: after the pass, every document in the index has a cache file under
\* its (owner, name, path), and the file holds the document's content.
C36_CacheMirrorsIndex ==
    probe.op = "syncKnowledgeBase" /\ probe.next > Len(probe.jobs) =>
       \A i \in 1..Len(documents) :
          [path |-> LocalPath(documents[i].repoOwner, documents[i].repoName,
                              documents[i].filePath),
           content |-> documents[i].content] \in probe.cache

\* C37: a pass whose loadConfig throws returns without touching the index,
\* forced or not, and leaves the timer armed as it was.
C37_ConfigFailureLeavesIndex ==
    [][\A p \in Passes :
          (/\ pass[p].pc = "loadConfig"
           /\ pass'[p] # pass[p]
           /\ mainPc' # "exited"
           /\ loadConfig(configFile).threw)
          => /\ pass'[p] = IdlePass
             /\ documents' = documents
             /\ syncInterval' = syncInterval]_vars

\* a forced pass and a pass of the timer are both about to resume from a
\* loadConfig that throws, the index holding documents
C37_Witness ==
    /\ documents # <<>>
    /\ syncInterval # 0
    /\ loadConfig(configFile).threw
    /\ \E p, q \in Passes :
          /\ pass[p].pc = "loadConfig" /\ pass[p].force
          /\ pass[q].pc = "loadConfig" /\ pass[q].origin = "timer"

\* C38: search, getStats, listRepositories and getDocument leave the stored
\* documents as they were, and isBlocked leaves the ledger as it was, its
\* entries and its lastUpdated.
C38_QueriesLeaveState ==
    [][probe' # probe =>
          /\ documents' = documents
          /\ blocklistFile'.entries = blocklistFile.entries
          /\ blocklistFile'.lastUpdated = blocklistFile.lastUpdated]_vars

\* isBlocked has answered "blocked" from a ledger last updated before now,
\* the index holding documents
C38_Witness ==
    /\ probe.op = "isBlocked"
    /\ probe.reply.blocked
    /\ blocklistFile.lastUpdated < now
    /\ documents # <<>>

\* C39: an invocation of syncKnowledgeBase that is under way returns, if
\* every call it waits for returns.
C39_PassCompletes == \A p \in Passes : InFlight(p) ~> ~InFlight(p)

\* a pass has run to its end and left documents in the index
C39_Witness ==
    /\ mainPc = "serving"
    /\ started > 0
    /\ \A p \in Passes : ~InFlight(p)
    /\ documents # <<>>

=============================================================================
